---------------------------- MODULE Spec2Model ----------------------------
(***************************************************************************)
(* Model of the agent core of simple-agentic-rag-system:                   *)
(*   src/src/agents/tool.py        tool contract and built-in tools        *)
(*   src/src/agents/base_agent.py  tool dispatch (BaseAgent.use_tool)      *)
(*   src/src/agents/reflector.py   Reflector / SimpleReflector             *)
(*   src/src/agents/react_agent.py the ReAct loop (ReActAgent.run)         *)
(*   src/src/agents/planner.py     QueryPlanner                            *)
(*                                                                         *)
(* Texts are sequences of tokens, scores are exact rationals, a Python     *)
(* dict is a sequence of <<key, value>> pairs in insertion order, and a    *)
(* raised exception is an explicit outcome (raised = TRUE, pc = "raised"). *)
(***************************************************************************)
EXTENDS Integers, Sequences, FiniteSets, TLC

VARIABLES
    \* ---- tool dispatch (BaseAgent.use_tool called on its own) ----
    tools,          \* self.tools: the registered tool names
    t_call,         \* the last use_tool call: its name, kwargs and outcome
    \* ---- reflection (Reflector.reflect / SimpleReflector.reflect) ----
    min_acceptable_score,   \* self.min_acceptable_score
    r_call,         \* the last reflect call: its inputs and outcome
    \* ---- planning (QueryPlanner) ----
    p_call,         \* the last planner call: its inputs and outcome
    \* ---- the ReAct loop (ReActAgent.run) ----
    pc,             \* position of the run
    max_iterations, \* self.max_iterations
    enable_reflection, \* self.enable_reflection
    collection,     \* the collection argument of run
    iteration,      \* the local iteration
    prompt,         \* the transcript
    llm_response,   \* the raw model text of the current iteration
    thought,        \* the parsed thought
    action,         \* the parsed action (NoAction when None)
    final_answer,   \* the candidate answer
    response,       \* the AgentResponse being built
    reflection_result, \* the first reflection of run
    rr,             \* the frame of reflect_and_refine
    calls,          \* the calls on external collaborators, in order
    memory,         \* the memory collaborator's log
    exception,      \* the exception that left run (NONE while there is none)
    \* ---- the tool indexes of an agent (BaseAgent.add_tool / remove_tool) ----
    agent,          \* self.tools and self.tools_by_category of one agent
    a_call,         \* the last add_tool / remove_tool call and the calls so far
    \* ---- conversation memory (ConversationMemory) ----
    conversation_memory,    \* the fields of one ConversationMemory
    m_call,         \* the last call on it and the number of add calls so far
    \* ---- the service boundary (AgentService.query) ----
    s_call,         \* the AgentService, the query call and what it returned
    \* ---- conversation management (ConversationManager) ----
    manager,        \* the fields of one ConversationManager
    c_call,         \* the last call on it, its outcome and the calls so far
    \* ---- runs of one agent interleaved (ReActAgent.run as coroutines) ----
    coros           \* the local variables of every run, by run

toolVars == <<tools, t_call>>
reflVars == <<min_acceptable_score, r_call>>
planVars == <<p_call>>
runVars  == <<pc, max_iterations, enable_reflection, collection, iteration,
              prompt, llm_response, thought, action, final_answer, response,
              reflection_result, rr, calls, memory, exception>>
regVars  == <<agent, a_call>>
memVars  == <<conversation_memory, m_call>>
svcVars  == <<s_call>>
mgrVars  == <<manager, c_call>>
coVars   == <<coros>>
restVars == <<regVars, memVars, svcVars, mgrVars, coVars>>
vars     == <<toolVars, reflVars, planVars, restVars, runVars, restVars>>

-----------------------------------------------------------------------------
(* Python values *)

\* Python's None where a string is expected.
NONE == "<None>"

\* dict: a sequence of <<key, value>> pairs, keys unique, insertion order.
EmptyDict == << >>

DictKeys(d) == {d[i][1] : i \in 1..Len(d)}

DictHas(d, k) == k \in DictKeys(d)

\* d.get(k, default)
DictGet(d, k, default) ==
    IF DictHas(d, k)
    THEN LET i == CHOOSE j \in 1..Len(d) : d[j][1] = k IN d[i][2]
    ELSE default

\* d[k] = v: overwrite in place, or append
DictSet(d, k, v) ==
    IF DictHas(d, k)
    THEN [i \in 1..Len(d) |-> IF d[i][1] = k THEN <<k, v>> ELSE d[i]]
    ELSE Append(d, <<k, v>>)

\* del d[k]
DictDel(d, k) ==
    LET keep == {i \in 1..Len(d) : d[i][1] /= k}
        F[n \in 0..Len(d)] ==
            IF n = 0 THEN << >>
            ELSE IF n \in keep THEN Append(F[n - 1], d[n]) ELSE F[n - 1]
    IN F[Len(d)]

\* list(d.values())
DictValues(d) == [i \in 1..Len(d) |-> d[i][2]]

-----------------------------------------------------------------------------
(* src/src/agents/tool.py *)

\* ToolResult(success, data, error=None, metadata=None, execution_time=0.0)
\* data is [kind, docs]: kind "None" is Python's None, docs is len(data["documents"]).
NoData == [kind |-> "None", docs |-> 0]

ToolResult(success, data, error, has_metadata) ==
    [success |-> success, data |-> data, error |-> error,
     has_metadata |-> has_metadata, execution_time |-> 0]

\* The names of the built-in tools and of a user-defined tool.
BuiltinTools == {"retrieve_documents", "calculator", "web_search", "summarize"}
CustomTool == "custom_tool"

\* Tool.parameters in declaration order: <<name, required>>.
Parameters(tool) ==
    CASE tool = "retrieve_documents" ->
           << <<"query", TRUE>>, <<"collection", TRUE>>,
              <<"top_k", FALSE>>, <<"score_threshold", FALSE>> >>
      [] tool = "calculator" -> << <<"expression", TRUE>> >>
      [] tool = "web_search" -> << <<"query", TRUE>>, <<"num_results", FALSE>> >>
      [] tool = "summarize" -> << <<"text", TRUE>>, <<"max_length", FALSE>> >>
      [] OTHER -> << >>

\* Tool.validate_parameters: the first required parameter that is missing
\* (AgentError is raised for it), or NONE when the kwargs are valid.
MissingParameters(tool, kwargs) ==
    {i \in 1..Len(Parameters(tool)) :
        Parameters(tool)[i][2] /\ ~DictHas(kwargs, Parameters(tool)[i][1])}

\* Mutant: the required flag is ignored, nothing is ever reported missing.
validate_parameters_unchecked(tool, kwargs) == NONE

validate_parameters(tool, kwargs) ==
    IF MissingParameters(tool, kwargs) = {}
    THEN NONE
    ELSE LET i == CHOOSE j \in MissingParameters(tool, kwargs) :
                    \A m \in MissingParameters(tool, kwargs) : j <= m
         IN "Missing required parameter: " \o Parameters(tool)[i][1]

\* What the collaborators of a tool do when called: ext.first is the outcome of
\* the first external call of execute, ext.second of the second one.
ExtOutcomes == [first : {"ok", "raise"}, second : {"ok", "raise"}, docs : {0, 1}]

\* The outcome of execute: raised (the exception escapes execute) with its
\* message, or a ToolResult; ext_calls are the external calls made.
Returned(result, ext_calls) ==
    [raised |-> FALSE, exc |-> NONE, result |-> result, ext_calls |-> ext_calls]

Raised(exc, ext_calls) ==
    [raised |-> TRUE, exc |-> exc,
     result |-> ToolResult(FALSE, NoData, NONE, FALSE), ext_calls |-> ext_calls]

\* RetrievalTool.execute
RetrievalExecute(kwargs, ext) ==
    LET missing == validate_parameters("retrieve_documents", kwargs) IN
    IF missing /= NONE
    THEN Returned(ToolResult(FALSE, NoData, missing, TRUE), << >>)
    ELSE IF ext.first = "raise"
    THEN Returned(ToolResult(FALSE, NoData, "embedding failed", TRUE),
                  <<"generate_embedding">>)
    ELSE IF ext.second = "raise"
    THEN Returned(ToolResult(FALSE, NoData, "search failed", TRUE),
                  <<"generate_embedding", "search">>)
    ELSE Returned(ToolResult(TRUE, [kind |-> "documents", docs |-> ext.docs], NONE, TRUE),
                  <<"generate_embedding", "search">>)

\* CalculatorTool.execute
CalculatorExecute(kwargs, ext) ==
    LET missing == validate_parameters("calculator", kwargs) IN
    IF missing /= NONE
    THEN Returned(ToolResult(FALSE, NoData, "Failed to calculate: " \o missing, TRUE), << >>)
    ELSE IF ext.first = "raise"
    THEN Returned(ToolResult(FALSE, NoData, "Failed to calculate: invalid syntax", TRUE),
                  <<"eval">>)
    ELSE Returned(ToolResult(TRUE, [kind |-> "result", docs |-> 0], NONE, TRUE), <<"eval">>)

\* WebSearchTool.execute (a placeholder: it calls no collaborator)
WebSearchExecute(kwargs, ext) ==
    LET missing == validate_parameters("web_search", kwargs) IN
    IF missing /= NONE
    THEN Returned(ToolResult(FALSE, NoData, missing, TRUE), << >>)
    ELSE Returned(ToolResult(TRUE, [kind |-> "results", docs |-> 0], NONE, TRUE), << >>)

\* SummaryTool.execute
SummaryExecute(kwargs, ext) ==
    LET missing == validate_parameters("summarize", kwargs) IN
    IF missing /= NONE
    THEN Returned(ToolResult(FALSE, NoData, missing, TRUE), << >>)
    ELSE IF ext.first = "raise"
    THEN Returned(ToolResult(FALSE, NoData, "summarize failed", TRUE), <<"summarize">>)
    ELSE Returned(ToolResult(TRUE, [kind |-> "summary", docs |-> 0], NONE, TRUE),
                  <<"summarize">>)

\* A user-defined Tool.execute: it raises, or returns a result of its own.
CustomExecute(kwargs, ext) ==
    IF ext.first = "raise"
    THEN Raised("custom tool crashed", <<"custom">>)
    ELSE Returned(ToolResult(ext.second = "ok", [kind |-> "custom", docs |-> 0],
                             IF ext.second = "ok" THEN NONE ELSE "custom failure", FALSE),
                  <<"custom">>)

\* tool.execute(**kwargs), by tool name
Execute(tool, kwargs, ext) ==
    CASE tool = "retrieve_documents" -> RetrievalExecute(kwargs, ext)
      [] tool = "calculator" -> CalculatorExecute(kwargs, ext)
      [] tool = "web_search" -> WebSearchExecute(kwargs, ext)
      [] tool = "summarize" -> SummaryExecute(kwargs, ext)
      [] OTHER -> CustomExecute(kwargs, ext)

-----------------------------------------------------------------------------
(* src/src/agents/base_agent.py *)

\* Mutant: no membership test, self.tools[tool_name] raises KeyError.
use_tool_no_lookup(registered, tool_name, kwargs, ext) ==
    IF tool_name \notin registered
    THEN [raised |-> TRUE, exc |-> "KeyError",
          result |-> ToolResult(FALSE, NoData, NONE, FALSE),
          ext_calls |-> << >>, executed |-> FALSE]
    ELSE [raised |-> FALSE, exc |-> NONE,
          result |-> Execute(tool_name, kwargs, ext).result,
          ext_calls |-> Execute(tool_name, kwargs, ext).ext_calls, executed |-> TRUE]

\* Mutant: no try/except around tool.execute, its exception escapes.
use_tool_no_except(registered, tool_name, kwargs, ext) ==
    IF tool_name \notin registered
    THEN [raised |-> FALSE, exc |-> NONE,
          result |-> ToolResult(FALSE, NoData, "Tool '" \o tool_name \o "' not found", FALSE),
          ext_calls |-> << >>, executed |-> FALSE]
    ELSE [raised |-> Execute(tool_name, kwargs, ext).raised,
          exc |-> Execute(tool_name, kwargs, ext).exc,
          result |-> Execute(tool_name, kwargs, ext).result,
          ext_calls |-> Execute(tool_name, kwargs, ext).ext_calls, executed |-> TRUE]

\* BaseAgent.use_tool(tool_name, **kwargs) on the registry `registered`:
\* [raised, exc, result, ext_calls, executed], executed = tool.execute was called.
use_tool(registered, tool_name, kwargs, ext) ==
    IF tool_name \notin registered
    THEN [raised |-> FALSE, exc |-> NONE,
          result |-> ToolResult(FALSE, NoData, "Tool '" \o tool_name \o "' not found", FALSE),
          ext_calls |-> << >>, executed |-> FALSE]
    ELSE LET out == Execute(tool_name, kwargs, ext) IN
         IF out.raised
         THEN [raised |-> FALSE, exc |-> NONE,
               result |-> ToolResult(FALSE, NoData, out.exc, FALSE),
               ext_calls |-> out.ext_calls, executed |-> TRUE]
         ELSE [raised |-> FALSE, exc |-> NONE, result |-> out.result,
               ext_calls |-> out.ext_calls, executed |-> TRUE]


-----------------------------------------------------------------------------
(* Scores: exact rationals [n, d] with d > 0, in lowest terms. *)

RECURSIVE GCD(_, _)
GCD(a, b) == IF b = 0 THEN a ELSE GCD(b, a % b)

Abs(x) == IF x < 0 THEN -x ELSE x

Rat(n, d) ==
    LET g == GCD(Abs(n), d)
    IN [n |-> n \div g, d |-> d \div g]

RatLt(x, y) == x.n * y.d < y.n * x.d

RatLe(x, y) == x.n * y.d <= y.n * x.d

RatAdd(x, y) == Rat(x.n * y.d + y.n * x.d, x.d * y.d)

RatMin(x, y) == IF RatLt(y, x) THEN y ELSE x

\* A score written with two decimals: Pct(70) is 0.7.
Pct(p) == Rat(p, 100)

-----------------------------------------------------------------------------
(* src/src/agents/reflector.py *)

\* ReflectionResult; criterion_scores is a dict name -> score.
ReflectionResult(overall_score, criterion_scores, feedback, issues, suggestions, should_refine) ==
    [overall_score |-> overall_score, criterion_scores |-> criterion_scores,
     feedback |-> feedback, issues |-> issues, suggestions |-> suggestions,
     should_refine |-> should_refine]

\* The judge's text, as tokens [k, n]:
\*   text        prose holding no brace
\*   lbrace      {
\*   rbrace      }
\*   score       the member "overall_score": n/100
\*   null_score  the member "overall_score": null
\*   field       the member "feedback": "fb"
JTok(k, n) == [k |-> k, n |-> n]

IsMember(tok) == tok.k \in {"score", "null_score", "field"}

\* re.search(r'\{.*\}', evaluation, re.DOTALL): from the first { to the last }
\* after it; <<0, 0>> when there is no match.
JsonSpan(evaluation) ==
    LET opens  == {i \in 1..Len(evaluation) : evaluation[i].k = "lbrace"}
        closes == {i \in 1..Len(evaluation) : evaluation[i].k = "rbrace"}
    IN IF opens = {} THEN <<0, 0>>
       ELSE LET first == CHOOSE i \in opens : \A j \in opens : i <= j
                after == {i \in closes : i > first}
            IN IF after = {} THEN <<0, 0>>
               ELSE <<first, CHOOSE i \in after : \A j \in after : i >= j>>

\* json.loads of the span succeeds: nothing but members between the braces.
JsonLoads(evaluation, span) ==
    \A i \in (span[1] + 1)..(span[2] - 1) : IsMember(evaluation[i])

\* eval_data.get("overall_score", 0.5): the last such member wins; the score,
\* and whether it is a number.
OverallScoreOf(evaluation, span) ==
    LET at == {i \in (span[1] + 1)..(span[2] - 1) :
                   evaluation[i].k \in {"score", "null_score"}}
    IN IF at = {} THEN [number |-> TRUE, score |-> Pct(50)]
       ELSE LET last == CHOOSE i \in at : \A j \in at : i >= j
            IN IF evaluation[last].k = "score"
               THEN [number |-> TRUE, score |-> Pct(evaluation[last].n)]
               ELSE [number |-> FALSE, score |-> Pct(0)]

FeedbackOf(evaluation, span) ==
    IF \E i \in (span[1] + 1)..(span[2] - 1) : evaluation[i].k = "field"
    THEN "fb" ELSE ""

\* The result of the except branch of _parse_evaluation.
DefaultEvaluation ==
    [number |-> TRUE,
     result |-> ReflectionResult(Pct(50), EmptyDict,
                    "Could not evaluate answer automatically", << >>, << >>, FALSE)]

\* Reflector._parse_evaluation: [number, result]; number = FALSE when the
\* overall_score of the result is not a number (JSON null).
_parse_evaluation(evaluation) ==
    LET span == JsonSpan(evaluation) IN
    IF span = <<0, 0>> \/ ~JsonLoads(evaluation, span)
    THEN DefaultEvaluation
    ELSE [number |-> OverallScoreOf(evaluation, span).number,
          result |-> ReflectionResult(OverallScoreOf(evaluation, span).score, EmptyDict,
                         FeedbackOf(evaluation, span), << >>, << >>, FALSE)]

\* Reflector._get_evaluation: llm is what llm_service.generate does,
\* [fails, text]; a failure is re-raised as AgentError.
_get_evaluation(llm) ==
    IF llm.fails
    THEN [raised |-> TRUE, exc |-> "Reflection evaluation failed: llm error", text |-> << >>]
    ELSE [raised |-> FALSE, exc |-> NONE, text |-> llm.text]

NoReflection ==
    ReflectionResult(Pct(0), EmptyDict, "", << >>, << >>, FALSE)

\* Mutant: should_refine is left as _parse_evaluation set it.
reflect_keep_parsed_flag(min_score, llm) ==
    IF _get_evaluation(llm).raised
    THEN [raised |-> TRUE, exc |-> _get_evaluation(llm).exc, result |-> NoReflection]
    ELSE [raised |-> FALSE, exc |-> NONE,
          result |-> _parse_evaluation(_get_evaluation(llm).text).result]

\* Reflector.reflect: [raised, exc, result].
reflect(min_score, llm) ==
    LET evaluation == _get_evaluation(llm) IN
    IF evaluation.raised
    THEN [raised |-> TRUE, exc |-> evaluation.exc, result |-> NoReflection]
    ELSE LET parsed == _parse_evaluation(evaluation.text) IN
         IF ~parsed.number
         THEN \* overall_score < min_acceptable_score on None: TypeError
              [raised |-> TRUE, exc |-> "TypeError", result |-> NoReflection]
         ELSE [raised |-> FALSE, exc |-> NONE,
               result |-> [parsed.result EXCEPT
                   !.should_refine = RatLt(parsed.result.overall_score, min_score)]]

\* Strings of the heuristic reflector are sequences of characters.
Uppercase ==
    <<"A", "B", "C", "D", "E", "F", "G", "H", "I", "J", "K", "L", "M",
      "N", "O", "P", "Q", "R", "S", "T", "U", "V", "W", "X", "Y", "Z">>

Lowercase ==
    <<"a", "b", "c", "d", "e", "f", "g", "h", "i", "j", "k", "l", "m",
      "n", "o", "p", "q", "r", "s", "t", "u", "v", "w", "x", "y", "z">>

LowerChar(c) ==
    IF \E i \in 1..Len(Uppercase) : Uppercase[i] = c
    THEN Lowercase[CHOOSE i \in 1..Len(Uppercase) : Uppercase[i] = c]
    ELSE c

\* str.lower()
Lower(str) == [i \in 1..Len(str) |-> LowerChar(str[i])]

\* set(str.split()): the maximal runs of non-blank characters
WordSet(str) ==
    {SubSeq(str, p[1], p[2]) :
        p \in {q \in (1..Len(str)) \X (1..Len(str)) :
                  /\ q[1] <= q[2]
                  /\ \A k \in q[1]..q[2] : str[k] /= " "
                  /\ (q[1] = 1 \/ str[q[1] - 1] = " ")
                  /\ (q[2] = Len(str) \/ str[q[2] + 1] = " ")}}

\* len(answer.split('.'))
SentenceCount(str) == 1 + Cardinality({i \in 1..Len(str) : str[i] = "."})

\* The criterion scores SimpleReflector computes, as a dict in the order of
\* the scores literal; accuracy and logic keep their initial 0.0.
SimpleScores(query, answer, has_docs) ==
    LET query_words  == WordSet(Lower(query))
        answer_words == WordSet(Lower(answer))
        qn           == IF Cardinality(query_words) > 1 THEN Cardinality(query_words) ELSE 1
        overlap      == Rat(Cardinality(query_words \cap answer_words), qn)
        relevance    == RatMin(RatAdd(overlap, Pct(30)), Pct(100))
        completeness == IF Len(answer) < Len(query) * 2
                        THEN Pct(40)
                        ELSE RatMin(Rat(Len(answer), Len(query) * 10), Pct(100))
        evidence     == IF has_docs THEN Pct(80) ELSE Pct(50)
        clarity      == IF SentenceCount(answer) < 2 THEN Pct(50) ELSE Pct(80)
    IN << <<"relevance", relevance>>, <<"accuracy", Pct(0)>>,
          <<"completeness", completeness>>, <<"clarity", clarity>>,
          <<"evidence", evidence>>, <<"logic", Pct(0)>> >>

\* The issues SimpleReflector reports, in order.
SimpleIssues(query, answer, has_docs) ==
    LET query_words  == WordSet(Lower(query))
        answer_words == WordSet(Lower(answer))
        qn           == IF Cardinality(query_words) > 1 THEN Cardinality(query_words) ELSE 1
        overlap      == Rat(Cardinality(query_words \cap answer_words), qn)
    IN (IF RatLt(overlap, Pct(30))
        THEN <<"Answer doesn't directly address the query">> ELSE << >>)
       \o (IF Len(answer) < Len(query) * 2 THEN <<"Answer seems too short">> ELSE << >>)
       \o (IF has_docs THEN << >> ELSE <<"No documents were retrieved to support answer">>)
       \o (IF SentenceCount(answer) < 2 THEN <<"Answer is not well-structured">> ELSE << >>)

SimpleSuggestions(query, answer) ==
    LET query_words  == WordSet(Lower(query))
        answer_words == WordSet(Lower(answer))
        qn           == IF Cardinality(query_words) > 1 THEN Cardinality(query_words) ELSE 1
        overlap      == Rat(Cardinality(query_words \cap answer_words), qn)
    IN (IF RatLt(overlap, Pct(30))
        THEN <<"Ensure answer directly responds to the question">> ELSE << >>)
       \o (IF Len(answer) < Len(query) * 2
           THEN <<"Provide more detailed explanation">> ELSE << >>)

RECURSIVE SumScores(_)
SumScores(scores) ==
    IF scores = << >> THEN Rat(0, 1)
    ELSE RatAdd(scores[1][2], SumScores(Tail(scores)))

\* sum(scores.values()) / len(scores)
OverallOf(scores) ==
    LET total == SumScores(scores) IN Rat(total.n, total.d * Len(scores))

SimpleFeedback(overall) ==
    IF RatLe(Pct(80), overall) THEN "Good quality answer"
    ELSE IF RatLe(Pct(60), overall) THEN "Acceptable answer with minor issues"
    ELSE "Answer needs significant improvement"

\* SimpleReflector.reflect: [raised, exc, result]. The division of the
\* completeness score by len(query) * 10 raises ZeroDivisionError.
simple_reflect(min_score, query, answer, has_docs) ==
    IF Len(answer) >= Len(query) * 2 /\ Len(query) * 10 = 0
    THEN [raised |-> TRUE, exc |-> "ZeroDivisionError", result |-> NoReflection]
    ELSE LET scores  == SimpleScores(query, answer, has_docs)
             overall == OverallOf(scores)
         IN [raised |-> FALSE, exc |-> NONE,
             result |-> ReflectionResult(overall, scores, SimpleFeedback(overall),
                            SimpleIssues(query, answer, has_docs),
                            SimpleSuggestions(query, answer),
                            RatLt(overall, min_score))]

-----------------------------------------------------------------------------
(* src/src/agents/react_agent.py *)

\* A model text is a sequence of tokens [k, a, b]:
\*   thought_mark  Thought:
\*   action_mark   Action:
\*   word          a run of word characters, a
\*   lparen        (  directly after a word
\*   rparen        )
\*   kv            a="b"       (a key="value" pair)
\*   jobj          {"a": "b"}  (a JSON object)
\*   jstr          "b"         (a JSON string)
\*   text          other prose, a
\*   obs           an observation: status a, detail b
Tok(k, a, b) == [k |-> k, a |-> a, b |-> b]

\* The text of a string value.
TextOf(str) == <<Tok("text", str, "")>>

\* The smallest member of a non-empty set of indexes.
Min(S) == CHOOSE i \in S : \A j \in S : i <= j

\* Parsed arguments: a dict, or a str when the JSON text was a string.
DictArgs(map) == [type |-> "dict", map |-> map, str |-> ""]
StrArgs(str) == [type |-> "str", map |-> EmptyDict, str |-> str]

\* The key="value" pairs of args_str, a later pair overwriting an earlier one.
RECURSIVE ScanPairs(_, _)
ScanPairs(args_str, args) ==
    IF args_str = << >> THEN args
    ELSE ScanPairs(Tail(args_str),
                   IF Head(args_str).k = "kv"
                   THEN DictSet(args, Head(args_str).a, Head(args_str).b)
                   ELSE args)

\* Mutant: the key="value" fallback is missing, so the arguments stay empty.
ParseArgs_json_only(args_str) ==
    IF Len(args_str) = 1 /\ args_str[1].k = "jobj"
    THEN DictArgs(<< <<args_str[1].a, args_str[1].b>> >>)
    ELSE IF Len(args_str) = 1 /\ args_str[1].k = "jstr"
    THEN StrArgs(args_str[1].b)
    ELSE DictArgs(EmptyDict)

\* The argument parsing of _parse_react_response: json.loads, then the
\* key="value" scan when it raises.
ParseArgs(args_str) ==
    IF args_str = << >> THEN DictArgs(EmptyDict)
    ELSE IF Len(args_str) = 1 /\ args_str[1].k = "jobj"
    THEN DictArgs(<< <<args_str[1].a, args_str[1].b>> >>)
    ELSE IF Len(args_str) = 1 /\ args_str[1].k = "jstr"
    THEN StrArgs(args_str[1].b)
    ELSE DictArgs(ScanPairs(args_str, EmptyDict))

\* action is None
NoAction == [none |-> TRUE, tool |-> NONE, args |-> DictArgs(EmptyDict)]

\* ReActAgent._parse_react_response: [thought, action]
_parse_react_response(text) ==
    LET thoughts == {i \in 1..Len(text) : text[i].k = "thought_mark"}
        ends     == IF thoughts = {} THEN {}
                    ELSE {j \in 1..Len(text) :
                              j > Min(thoughts) /\ text[j].k = "action_mark"}
        thought_ == IF ends = {} THEN text
                    ELSE SubSeq(text, Min(thoughts) + 1, Min(ends) - 1)
        starts   == {i \in 1..(Len(text) - 1) :
                        text[i].k = "action_mark" /\ text[i + 1].k = "word"}
    IN IF starts = {}
       THEN [thought |-> thought_, action |-> NoAction]
       ELSE LET i      == Min(starts)
                closes == {j \in (i + 3)..Len(text) : text[j].k = "rparen"}
                args_str == IF i + 2 <= Len(text) /\ text[i + 2].k = "lparen" /\ closes /= {}
                            THEN SubSeq(text, i + 3, Min(closes) - 1)
                            ELSE << >>
            IN [thought |-> thought_,
                action |-> [none |-> FALSE, tool |-> text[i + 1].a,
                            args |-> ParseArgs(args_str)]]

\* ToolResult.to_string
to_string(result) ==
    IF result.success
    THEN <<Tok("obs", "success", result.data.kind)>>
    ELSE <<Tok("obs", "error", result.error)>>

\* ", ".join(f"{k}={json.dumps(v)}" for k, v in args.items())
ArgsEcho(args) == [i \in 1..Len(args) |-> Tok("kv", args[i][1], args[i][2])]

\* Mutant: the transcript is cut back to its last Thought: marker before the
\* new step is appended.
_update_react_prompt_truncating(prompt_, thought_, action_, observation) ==
    <<Tok("thought_mark", "", "")>> \o thought_
        \o (IF action_.none THEN << >>
            ELSE <<Tok("action_mark", "", ""), Tok("word", action_.tool, ""),
                   Tok("lparen", "", "")>>
                 \o ArgsEcho(action_.args.map) \o <<Tok("rparen", "", "")>>)
        \o <<Tok("text", "Observation:", "")>> \o observation
        \o <<Tok("thought_mark", "", "")>>

\* ReActAgent._update_react_prompt
_update_react_prompt(prompt_, thought_, action_, observation) ==
    prompt_ \o thought_
        \o (IF action_.none THEN << >>
            ELSE <<Tok("action_mark", "", ""), Tok("word", action_.tool, ""),
                   Tok("lparen", "", "")>>
                 \o ArgsEcho(action_.args.map) \o <<Tok("rparen", "", "")>>)
        \o <<Tok("text", "Observation:", "")>> \o observation
        \o <<Tok("thought_mark", "", "")>>

\* ReActAgent._build_react_prompt
_build_react_prompt(query) ==
    <<Tok("text", "instructions and tools", ""), Tok("text", query, ""),
      Tok("thought_mark", "", "")>>

\* Mutant: step is left at the default of the dataclass.
AgentAction_default_step(tool_name, tool_input, tool_output, thought_, step) ==
    [tool_name |-> tool_name, tool_input |-> tool_input, tool_output |-> tool_output,
     thought |-> thought_, step |-> 0]

\* AgentAction
AgentAction(tool_name, tool_input, tool_output, thought_, step) ==
    [tool_name |-> tool_name, tool_input |-> tool_input, tool_output |-> tool_output,
     thought |-> thought_, step |-> step]

\* AgentResponse(answer=""): confidence 0.0, empty lists, empty metadata
NewResponse ==
    [answer |-> << >>, actions |-> << >>, intermediate_steps |-> << >>,
     confidence |-> Pct(0), metadata |-> EmptyDict]

-----------------------------------------------------------------------------
(* src/src/agents/planner.py *)

\* A query is a string, a sequence of characters; the keyword lists of
\* classify_query, each keyword a string.
\* planner.py:209-212: calculate, sum, add, multiply, divide, subtract, total, average, count, how many, how much
CalculationWords ==
    << <<"c", "a", "l", "c", "u", "l", "a", "t", "e">>,
       <<"s", "u", "m">>,
       <<"a", "d", "d">>,
       <<"m", "u", "l", "t", "i", "p", "l", "y">>,
       <<"d", "i", "v", "i", "d", "e">>,
       <<"s", "u", "b", "t", "r", "a", "c", "t">>,
       <<"t", "o", "t", "a", "l">>,
       <<"a", "v", "e", "r", "a", "g", "e">>,
       <<"c", "o", "u", "n", "t">>,
       <<"h", "o", "w", " ", "m", "a", "n", "y">>,
       <<"h", "o", "w", " ", "m", "u", "c", "h">> >>

\* planner.py:216-219: compare, difference, better, worse, vs, versus, between, among, contrast
ComparisonWords ==
    << <<"c", "o", "m", "p", "a", "r", "e">>,
       <<"d", "i", "f", "f", "e", "r", "e", "n", "c", "e">>,
       <<"b", "e", "t", "t", "e", "r">>,
       <<"w", "o", "r", "s", "e">>,
       <<"v", "s">>,
       <<"v", "e", "r", "s", "u", "s">>,
       <<"b", "e", "t", "w", "e", "e", "n">>,
       <<"a", "m", "o", "n", "g">>,
       <<"c", "o", "n", "t", "r", "a", "s", "t">> >>

\* planner.py:223-226: and also, also, additionally, besides, furthermore, what about, how about
MultiPartWords ==
    << <<"a", "n", "d", " ", "a", "l", "s", "o">>,
       <<"a", "l", "s", "o">>,
       <<"a", "d", "d", "i", "t", "i", "o", "n", "a", "l", "l", "y">>,
       <<"b", "e", "s", "i", "d", "e", "s">>,
       <<"f", "u", "r", "t", "h", "e", "r", "m", "o", "r", "e">>,
       <<"w", "h", "a", "t", " ", "a", "b", "o", "u", "t">>,
       <<"h", "o", "w", " ", "a", "b", "o", "u", "t">> >>

\* planner.py:230-233: find all, list all, every, each, then, after that, next, subsequently
RecursiveWords ==
    << <<"f", "i", "n", "d", " ", "a", "l", "l">>,
       <<"l", "i", "s", "t", " ", "a", "l", "l">>,
       <<"e", "v", "e", "r", "y">>,
       <<"e", "a", "c", "h">>,
       <<"t", "h", "e", "n">>,
       <<"a", "f", "t", "e", "r", " ", "t", "h", "a", "t">>,
       <<"n", "e", "x", "t">>,
       <<"s", "u", "b", "s", "e", "q", "u", "e", "n", "t", "l", "y">> >>

\* planner.py:237-240: why, explain, reason, because, cause, effect, relationship, how does, how do
ReasoningWords ==
    << <<"w", "h", "y">>,
       <<"e", "x", "p", "l", "a", "i", "n">>,
       <<"r", "e", "a", "s", "o", "n">>,
       <<"b", "e", "c", "a", "u", "s", "e">>,
       <<"c", "a", "u", "s", "e">>,
       <<"e", "f", "f", "e", "c", "t">>,
       <<"r", "e", "l", "a", "t", "i", "o", "n", "s", "h", "i", "p">>,
       <<"h", "o", "w", " ", "d", "o", "e", "s">>,
       <<"h", "o", "w", " ", "d", "o">> >>

\* `word in query_lower`: word occurs in str as a substring.
Occurs(word, str) ==
    \E i \in 1..(Len(str) - Len(word) + 1) :
        \A j \in 1..Len(word) : str[i + j - 1] = word[j]

\* any(word in query_lower for word in words)
AnyOccurs(words, str) == \E k \in 1..Len(words) : Occurs(words[k], str)

\* Mutant: the comparison keywords are tested before the calculation ones.
classify_query_comparison_first(query) ==
    LET query_lower == Lower(query) IN
    IF AnyOccurs(ComparisonWords, query_lower) THEN "comparison"
    ELSE IF AnyOccurs(CalculationWords, query_lower) THEN "calculation"
    ELSE IF AnyOccurs(MultiPartWords, query_lower) THEN "multi_part"
    ELSE IF AnyOccurs(RecursiveWords, query_lower) THEN "recursive"
    ELSE IF AnyOccurs(ReasoningWords, query_lower) THEN "reasoning"
    ELSE "simple"

\* QueryPlanner.classify_query: the value of the QueryType returned.
classify_query(query) ==
    LET query_lower == Lower(query) IN
    IF AnyOccurs(CalculationWords, query_lower) THEN "calculation"
    ELSE IF AnyOccurs(ComparisonWords, query_lower) THEN "comparison"
    ELSE IF AnyOccurs(MultiPartWords, query_lower) THEN "multi_part"
    ELSE IF AnyOccurs(RecursiveWords, query_lower) THEN "recursive"
    ELSE IF AnyOccurs(ReasoningWords, query_lower) THEN "reasoning"
    ELSE "simple"

\* SubQuery
SubQuery(id, text, dependencies, tool_hint, priority) ==
    [id |-> id, text |-> text, dependencies |-> dependencies,
     tool_hint |-> tool_hint, priority |-> priority]

\* QueryPlan
QueryPlan(original_query, query_type, sub_queries, execution_order, description, estimated_steps) ==
    [original_query |-> original_query, query_type |-> query_type,
     sub_queries |-> sub_queries, execution_order |-> execution_order,
     description |-> description, estimated_steps |-> estimated_steps]

\* [sq.id for sq in sub_queries]
IdsOf(sub_queries) == [i \in 1..Len(sub_queries) |-> sub_queries[i].id]

\* graph = {sq.id: sq.dependencies for sq in sub_queries}: a later sub-query
\* with the same id replaces the value, the key keeps its place.
RECURSIVE Graph(_)
Graph(sub_queries) ==
    IF sub_queries = << >> THEN EmptyDict
    ELSE LET n == Len(sub_queries)
         IN DictSet(Graph(SubSeq(sub_queries, 1, n - 1)),
                    sub_queries[n].id, sub_queries[n].dependencies)

\* in_degree after `in_degree[sq_id] += 1` for every dep_id of every entry of
\* graph: one per element of the dependency list.
InDegree(graph) == [i \in 1..Len(graph) |-> <<graph[i][1], Len(graph[i][2])>>]

\* deque([sq_id for sq_id, degree in in_degree.items() if degree == 0])
ZeroDegree(in_degree) ==
    LET zero == SelectSeq(in_degree, LAMBDA e : e[2] = 0)
    IN [i \in 1..Len(zero) |-> zero[i][1]]

\* `current in deps`
InList(x, list) == \E i \in 1..Len(list) : list[i] = x

\* The for loop over graph.items() after a pop, from its k-th entry on:
\* [queue, in_degree] when it ends.
RECURSIVE Relax(_, _, _, _, _)
Relax(graph, k, current, queue, in_degree) ==
    IF k > Len(graph) THEN [queue |-> queue, in_degree |-> in_degree]
    ELSE LET sq_id == graph[k][1]
             deps  == graph[k][2]
         IN IF InList(current, deps)
            THEN LET degree == DictGet(in_degree, sq_id, 0) - 1
                 IN Relax(graph, k + 1, current,
                          IF degree = 0 THEN Append(queue, sq_id) ELSE queue,
                          DictSet(in_degree, sq_id, degree))
            ELSE Relax(graph, k + 1, current, queue, in_degree)

\* `while queue:` of Kahn's algorithm: the order when the queue is empty.
RECURSIVE Kahn(_, _, _, _)
Kahn(graph, queue, order, in_degree) ==
    IF queue = << >> THEN order
    ELSE LET current == Head(queue)
             relaxed == Relax(graph, 1, current, Tail(queue), in_degree)
         IN Kahn(graph, relaxed.queue, Append(order, current), relaxed.in_degree)

\* Mutant: the fallback returns the keys of the graph, every id once.
_determine_execution_order_keys(sub_queries) ==
    LET graph     == Graph(sub_queries)
        in_degree == InDegree(graph)
        order     == Kahn(graph, ZeroDegree(in_degree), << >>, in_degree)
    IN IF Len(order) /= Len(sub_queries)
       THEN [i \in 1..Len(graph) |-> graph[i][1]]
       ELSE order

\* Mutant: the order of the loop is returned as it is, complete or not.
_determine_execution_order_no_fallback(sub_queries) ==
    LET graph == Graph(sub_queries)
    IN Kahn(graph, ZeroDegree(InDegree(graph)), << >>, InDegree(graph))

\* QueryPlanner._determine_execution_order
_determine_execution_order(sub_queries) ==
    LET graph     == Graph(sub_queries)
        in_degree == InDegree(graph)
        order     == Kahn(graph, ZeroDegree(in_degree), << >>, in_degree)
    IN IF Len(order) /= Len(sub_queries) THEN IdsOf(sub_queries) ELSE order

\* The text of the planning model, as tokens [k, n]:
\*   text         prose holding no brace
\*   lbrace       {
\*   rbrace       }
\*   description  the member "description": "approach"
\*   sub_queries  the member "sub_queries": [...], the list being the n-th of
\*                Decompositions
PTok(k, n) == [k |-> k, n |-> n]

\* An element of the "sub_queries" list: a JSON object with the given keys.
SqData(id, dependencies) ==
    << <<"id", id>>, <<"text", "part">>, <<"dependencies", dependencies>>,
       <<"tool_hint", "retrieve_documents">>, <<"priority", 1>> >>

SqDataBare(id) == << <<"id", id>>, <<"text", "part">> >>

SqDataNoId(dependencies) == << <<"text", "part">>, <<"dependencies", dependencies>> >>

SqDataNoText(id, dependencies) == << <<"id", id>>, <<"dependencies", dependencies>> >>

\* The "sub_queries" lists the planning model may write.
Decompositions ==
    << << >>,
       <<SqData(1, << >>), SqData(2, <<1>>)>>,
       <<SqDataBare(1), SqData(2, <<1>>), SqData(3, <<1, 2>>)>>,
       <<SqData(1, <<2>>), SqData(2, <<1>>)>>,
       <<SqData(1, <<2, 2>>), SqData(2, << >>)>>,
       <<SqData(1, <<2, 3>>), SqData(2, << >>)>>,
       <<SqData(1, << >>), SqDataNoText(2, <<1>>)>>,
       <<SqDataNoId(<< >>)>> >>

\* self._extract_json(response): re.search(r'\{.*\}', text, re.DOTALL), the
\* whole text when there is no match.
_extract_json(text) ==
    LET span == JsonSpan(text)
    IN IF span = <<0, 0>> THEN text ELSE SubSeq(text, span[1], span[2])

\* json.loads(...) gives a dict: a { first, a } last, members in between.
\* Everything else raises in json.loads or in plan_data.get.
LoadsDict(json_text) ==
    /\ Len(json_text) >= 2
    /\ json_text[1].k = "lbrace"
    /\ json_text[Len(json_text)].k = "rbrace"
    /\ \A i \in 2..(Len(json_text) - 1) : json_text[i].k \in {"description", "sub_queries"}

\* plan_data.get("sub_queries", []): the last such member wins.
SubQueriesOf(json_text) ==
    LET at == {i \in 1..Len(json_text) : json_text[i].k = "sub_queries"}
    IN IF at = {} THEN << >>
       ELSE Decompositions[json_text[CHOOSE i \in at : \A j \in at : i >= j].n]

\* plan_data.get("description", "")
DescriptionOf(json_text) ==
    IF \E i \in 1..Len(json_text) : json_text[i].k = "description"
    THEN "approach" ELSE ""

\* SubQuery(id=sq_data["id"], text=sq_data["text"], ...) for every sq_data;
\* a missing "id" or "text" raises KeyError.
BuildSubQueries(data) ==
    IF \E i \in 1..Len(data) : ~DictHas(data[i], "id") \/ ~DictHas(data[i], "text")
    THEN [raised |-> TRUE, sub_queries |-> << >>]
    ELSE [raised |-> FALSE,
          sub_queries |-> [i \in 1..Len(data) |->
              SubQuery(DictGet(data[i], "id", NONE), DictGet(data[i], "text", NONE),
                       DictGet(data[i], "dependencies", << >>),
                       DictGet(data[i], "tool_hint", NONE),
                       DictGet(data[i], "priority", 0))]]

\* The plan of the SIMPLE branch of plan and of the except branch of
\* _decompose_query.
SingleQueryPlan(query, query_type, description) ==
    QueryPlan(query, query_type, <<SubQuery(0, query, << >>, NONE, 0)>>, <<0>>,
              description, 1)

\* The body of the try of _decompose_query: [raised, plan].
Decompose(query, query_type, llm) ==
    LET json_text == _extract_json(llm.text)
        built     == BuildSubQueries(SubQueriesOf(json_text))
        raised    == llm.fails \/ ~LoadsDict(json_text) \/ built.raised
    IN [raised |-> raised,
        plan |-> IF raised THEN SingleQueryPlan(query, query_type, "")
                 ELSE QueryPlan(query, query_type, built.sub_queries,
                                _determine_execution_order(built.sub_queries),
                                DescriptionOf(json_text), Len(built.sub_queries))]

\* Mutant: no except branch, the exception leaves _decompose_query.
_decompose_query_no_except(query, query_type, llm) ==
    [raised |-> Decompose(query, query_type, llm).raised,
     plan |-> Decompose(query, query_type, llm).plan]

\* QueryPlanner._decompose_query: [raised, plan].
_decompose_query(query, query_type, llm) ==
    LET try == Decompose(query, query_type, llm) IN
    IF try.raised
    THEN [raised |-> FALSE,
          plan |-> SingleQueryPlan(query, query_type,
                                   "Planning failed, treating as simple query")]
    ELSE try

\* Mutant: the SIMPLE branch is missing, every query is decomposed.
plan_always_decompose(query, llm) ==
    LET out == _decompose_query(query, classify_query(query), llm)
    IN [raised |-> out.raised,
        plan |-> [out.plan EXCEPT !.estimated_steps = Len(out.plan.sub_queries)],
        llm_calls |-> 1]

\* QueryPlanner.plan: [raised, plan, llm_calls], llm_calls the number of
\* llm_service.generate calls made.
plan(query, llm) ==
    LET query_type == classify_query(query) IN
    IF query_type = "simple"
    THEN [raised |-> FALSE,
          plan |-> SingleQueryPlan(query, query_type, "Direct query - no planning needed"),
          llm_calls |-> 0]
    ELSE LET out == _decompose_query(query, query_type, llm)
         IN [raised |-> out.raised,
             plan |-> [out.plan EXCEPT !.estimated_steps = Len(out.plan.sub_queries)],
             llm_calls |-> 1]

\* No planner call was made.
NoPlanCall ==
    [op |-> "none", query |-> << >>, llm |-> [fails |-> FALSE, text |-> << >>],
     sub_queries |-> << >>, out |-> NONE]

PlanIdle == p_call = NoPlanCall

-----------------------------------------------------------------------------
(* src/src/agents/base_agent.py: the tool indexes *)

\* A Tool as the indexes see it: its name, its category and its identity.
\* Tool defines no __eq__, so list.remove compares object identities.
ToolObject(name, category, id) == [name |-> name, category |-> category, id |-> id]

\* self.tools_by_category[tool.category].append(tool), the list created first
\* when the category is new.
Categorize(by_category, tool) ==
    DictSet(by_category, tool.category,
            Append(DictGet(by_category, tool.category, << >>), tool))

\* BaseAgent.__init__: the two indexes built from the constructor's list.
RECURSIVE NewAgent(_)
NewAgent(tool_list) ==
    IF tool_list = << >> THEN [tools |-> EmptyDict, tools_by_category |-> EmptyDict]
    ELSE LET n == Len(tool_list)
             self == NewAgent(SubSeq(tool_list, 1, n - 1))
             tool == tool_list[n]
         IN [tools |-> DictSet(self.tools, tool.name, tool),
             tools_by_category |-> Categorize(self.tools_by_category, tool)]

\* BaseAgent.add_tool
add_tool(self, tool) ==
    [tools |-> DictSet(self.tools, tool.name, tool),
     tools_by_category |-> Categorize(self.tools_by_category, tool)]

\* list.remove(x): the first occurrence goes; ValueError when there is none.
ListRemove(list, x) ==
    IF \A j \in 1..Len(list) : list[j] /= x
    THEN [raised |-> TRUE, list |-> list]
    ELSE LET i == CHOOSE j \in 1..Len(list) :
                      list[j] = x /\ \A k \in 1..(j - 1) : list[k] /= x
         IN [raised |-> FALSE,
             list |-> SubSeq(list, 1, i - 1) \o SubSeq(list, i + 1, Len(list))]

\* BaseAgent.remove_tool: the new indexes and the value returned.
remove_tool(self, tool_name) ==
    IF ~DictHas(self.tools, tool_name)
    THEN [self |-> self, returned |-> FALSE, raised |-> FALSE]
    ELSE LET tool == DictGet(self.tools, tool_name, NONE)
             rest == ListRemove(DictGet(self.tools_by_category, tool.category, << >>), tool)
         IN [self |-> [tools |-> DictDel(self.tools, tool_name),
                       tools_by_category |->
                           IF rest.raised THEN self.tools_by_category
                           ELSE DictSet(self.tools_by_category, tool.category, rest.list)],
             returned |-> ~rest.raised, raised |-> rest.raised]

\* BaseAgent.get_tools
get_tools(self, category) ==
    IF category /= NONE THEN DictGet(self.tools_by_category, category, << >>)
    ELSE DictValues(self.tools)

NoAgentCall == [op |-> "none", name |-> NONE, returned |-> FALSE, raised |-> FALSE, n |-> 0]

RegIdle ==
    /\ agent = NewAgent(<< >>)
    /\ a_call = NoAgentCall

-----------------------------------------------------------------------------
(* src/src/agents/memory.py: ConversationMemory *)

\* Message(role, content); the content is the number of the add call it
\* came with.
Message(role, content) == [role |-> role, content |-> content]

\* ConversationMemory.__init__
NewConversationMemory(max_messages) ==
    [max_messages |-> max_messages, conversations |-> EmptyDict,
     current_conversation_id |-> NONE, global_messages |-> << >>]

\* list[-n:] for n >= 0. Python reads -0 as 0, so list[-0:] is the whole list.
LastSlice(list, n) ==
    IF n = 0 \/ n >= Len(list) THEN list
    ELSE SubSeq(list, Len(list) - n + 1, Len(list))

\* ConversationMemory._trim_messages
_trim_messages(self) ==
    IF Len(self.global_messages) > self.max_messages
    THEN [self EXCEPT !.global_messages = LastSlice(@, self.max_messages)]
    ELSE self

\* ConversationMemory.add
add(self, query, answer) ==
    LET user_message == Message("user", query)
        assistant_message == Message("assistant", answer)
        appended == [self EXCEPT !.global_messages = @ \o <<user_message, assistant_message>>]
        id == self.current_conversation_id
        filed == IF id /= NONE /\ DictHas(self.conversations, id)
                 THEN [appended EXCEPT !.conversations =
                          DictSet(@, id, DictGet(self.conversations, id, << >>)
                                             \o <<user_message, assistant_message>>)]
                 ELSE appended
    IN _trim_messages(filed)

\* ConversationMemory.start_conversation
start_conversation(self, conversation_id) ==
    [self EXCEPT !.current_conversation_id = conversation_id,
                 !.conversations = IF DictHas(@, conversation_id) THEN @
                                   ELSE DictSet(@, conversation_id, << >>)]

\* ConversationMemory.end_conversation
end_conversation(self) == [self EXCEPT !.current_conversation_id = NONE]

NoMemoryCall == [op |-> "none", adds |-> 0]

MemIdle ==
    /\ conversation_memory = NewConversationMemory(0)
    /\ m_call = NoMemoryCall

-----------------------------------------------------------------------------
(* src/src/services/agent_service.py *)

\* The service and its query call: use_memory is the constructor's flag,
\* op is "none" before the call, "running" inside agent.run and "returned"
\* after it; raised tells that an exception left query.
NoServiceCall ==
    [op |-> "none", use_memory |-> TRUE, agent_type |-> NONE, raised |-> FALSE,
     result |-> [success |-> FALSE, answer |-> NONE, error |-> NONE,
                 iterations |-> 0, tools_used |-> << >>]]

SvcIdle == s_call = NoServiceCall

-----------------------------------------------------------------------------
(* src/src/agents/conversation_manager.py *)

\* ConversationManager.__init__ without storage_path: nothing is loaded and
\* _save_to_storage returns at once.
NewConversationManager(max_messages_per_conversation) ==
    [max_messages_per_conversation |-> max_messages_per_conversation,
     conversations |-> EmptyDict, conversation_metadata |-> EmptyDict]

\* ConversationMetadata(title, message_count): the fields the calls write.
ConversationMetadata(title, message_count) ==
    [title |-> title, message_count |-> message_count]

\* ConversationManager.create_conversation: uuid4 gives conv_id.
create_conversation(self, conv_id, title) ==
    [self EXCEPT
        !.conversations = DictSet(@, conv_id, << >>),
        !.conversation_metadata =
            DictSet(@, conv_id,
                    ConversationMetadata(IF title = "" THEN "Conversation <now>" ELSE title, 0))]

\* ConversationManager.add_message(conversation_id, message, update_title=True).
\* `not conversation` is true for a conversation that is missing; a
\* Conversation object is always truthy.
add_message(self, conversation_id, message) ==
    IF ~DictHas(self.conversations, conversation_id)
           \/ ~DictHas(self.conversation_metadata, conversation_id)
    THEN self
    ELSE LET messages == Append(DictGet(self.conversations, conversation_id, << >>), message)
             metadata == DictGet(self.conversation_metadata, conversation_id, NONE)
             title == IF Len(messages) = 1 /\ message.role = "user"
                      THEN message.content ELSE metadata.title
         IN [self EXCEPT
                !.conversations = DictSet(@, conversation_id, messages),
                !.conversation_metadata =
                    DictSet(@, conversation_id, ConversationMetadata(title, Len(messages)))]

\* ConversationManager.import_conversation(data, format): data is the text
\* as json.loads reads it, [valid, messages, title]. A format other than
\* json raises ValueError, a text that is not JSON JSONDecodeError, and,
\* Message having no from_dict, a non-empty message list AttributeError.
import_conversation(self, conv_id, data, format) ==
    IF format /= "json" THEN [self |-> self, raised |-> TRUE, exc |-> "ValueError"]
    ELSE IF ~data.valid THEN [self |-> self, raised |-> TRUE, exc |-> "JSONDecodeError"]
    ELSE IF data.messages /= << >>
    THEN [self |-> self, raised |-> TRUE, exc |-> "AttributeError"]
    ELSE [self |-> [self EXCEPT
                       !.conversations = DictSet(@, conv_id, << >>),
                       !.conversation_metadata =
                           DictSet(@, conv_id, ConversationMetadata(data.title, 0))],
          raised |-> FALSE, exc |-> NONE]

NoManagerCall == [op |-> "none", returned |-> NONE, raised |-> FALSE, exc |-> NONE, n |-> 0]

MgrIdle ==
    /\ manager = NewConversationManager(0)
    /\ c_call = NoManagerCall

\* No run of the agent has been started as a coroutine.
CoIdle == coros = << >>

RestIdle == RegIdle /\ MemIdle /\ SvcIdle /\ MgrIdle /\ CoIdle

-----------------------------------------------------------------------------
(* Specification SpecTool: tools are dispatched through BaseAgent.use_tool   *)
(* and called directly through Tool.execute, with every name, every choice  *)
(* of keyword arguments and every behaviour of the collaborators.           *)

AllTools == BuiltinTools \cup {CustomTool}

\* A name no tool has.
UnknownTool == "no_such_tool"

\* The keyword arguments a caller passes: any subset of these keys.
KwargKeys == <<"query", "collection", "expression", "text">>

KwargsOf(S) ==
    LET keys == SelectSeq(KwargKeys, LAMBDA k : k \in S)
    IN [i \in 1..Len(keys) |-> <<keys[i], "v">>]

KwargsSet == {KwargsOf(S) : S \in SUBSET {KwargKeys[i] : i \in 1..Len(KwargKeys)}}

NoToolCall ==
    [op |-> "none", name |-> NONE, kwargs |-> EmptyDict,
     ext |-> [first |-> "ok", second |-> "ok", docs |-> 0],
     out |-> [raised |-> FALSE, exc |-> NONE,
              result |-> ToolResult(FALSE, NoData, NONE, FALSE),
              ext_calls |-> << >>, executed |-> FALSE]]

NoReflectCall ==
    [op |-> "none", llm |-> [fails |-> FALSE, text |-> << >>],
     query |-> << >>, answer |-> << >>, has_docs |-> FALSE,
     out |-> [raised |-> FALSE, exc |-> NONE, result |-> NoReflection]]

ReflIdle ==
    /\ min_acceptable_score = Pct(70)
    /\ r_call = NoReflectCall

RunIdle ==
    /\ pc = "idle"
    /\ max_iterations = 0
    /\ enable_reflection = FALSE
    /\ collection = NONE
    /\ iteration = 0
    /\ prompt = << >>
    /\ llm_response = << >>
    /\ thought = << >>
    /\ action = [tool |-> NONE]
    /\ final_answer = << >>
    /\ response = [answer |-> << >>]
    /\ reflection_result = [op |-> "none"]
    /\ rr = [op |-> "none"]
    /\ calls = << >>
    /\ memory = << >>
    /\ exception = NONE

ToolIdle ==
    /\ tools = {}
    /\ t_call = NoToolCall

InitTool ==
    /\ RestIdle
    /\ tools \in SUBSET AllTools
    /\ t_call = NoToolCall
    /\ ReflIdle
    /\ PlanIdle
    /\ RunIdle

\* agent.use_tool(name, **kwargs), one call per behaviour
UseTool ==
    \E name \in AllTools \cup {UnknownTool}, kwargs \in KwargsSet, ext \in ExtOutcomes :
        /\ t_call.op = "none"
        /\ t_call' = [op |-> "use_tool", name |-> name, kwargs |-> kwargs, ext |-> ext,
                      out |-> use_tool(tools, name, kwargs, ext)]
        /\ UNCHANGED <<tools, reflVars, planVars, runVars, restVars>>

\* tool.execute(**kwargs) called on a tool object directly
ToolExecute ==
    \E name \in AllTools, kwargs \in KwargsSet, ext \in ExtOutcomes :
        /\ t_call.op = "none"
        /\ t_call' = [op |-> "execute", name |-> name, kwargs |-> kwargs, ext |-> ext,
                      out |-> [raised |-> Execute(name, kwargs, ext).raised,
                               exc |-> Execute(name, kwargs, ext).exc,
                               result |-> Execute(name, kwargs, ext).result,
                               ext_calls |-> Execute(name, kwargs, ext).ext_calls,
                               executed |-> TRUE]]
        /\ UNCHANGED <<tools, reflVars, planVars, runVars, restVars>>

NextTool == UseTool \/ ToolExecute

SpecTool == InitTool /\ [][NextTool]_vars

\* C5: for every tool name that is not registered, use_tool returns a failed
\* ToolResult whose error says the tool was not found, calls no tool and no
\* collaborator, and does not raise.
C5_UnknownToolNotFound ==
    (t_call.op = "use_tool" /\ t_call.name \notin tools) =>
        /\ ~t_call.out.raised
        /\ t_call.out.result.success = FALSE
        /\ t_call.out.result.error = "Tool '" \o t_call.name \o "' not found"
        /\ ~t_call.out.executed
        /\ t_call.out.ext_calls = << >>

C5_Witness ==
    /\ t_call.op = "use_tool"
    /\ t_call.name \in BuiltinTools
    /\ t_call.name \notin tools
    /\ tools /= {}
    /\ t_call.out.result.error = "Tool '" \o t_call.name \o "' not found"

\* C6: for every registered tool whose execute raises, use_tool does not
\* propagate the exception: it returns a failed ToolResult whose error is the
\* stringified exception, with execution_time >= 0.
C6_ToolExceptionConverted ==
    (/\ t_call.op = "use_tool"
     /\ t_call.name \in tools
     /\ Execute(t_call.name, t_call.kwargs, t_call.ext).raised) =>
        /\ ~t_call.out.raised
        /\ t_call.out.result.success = FALSE
        /\ t_call.out.result.error /= NONE
        /\ t_call.out.result.error = Execute(t_call.name, t_call.kwargs, t_call.ext).exc
        /\ t_call.out.result.execution_time >= 0

C6_Witness ==
    /\ t_call.op = "use_tool"
    /\ t_call.name = CustomTool
    /\ CustomTool \in tools
    /\ t_call.ext.first = "raise"
    /\ t_call.out.executed
    /\ t_call.out.result.error = "custom tool crashed"

\* C7: for every built-in tool, execute with a required parameter missing
\* returns a failed ToolResult carrying an error, makes none of the tool's
\* external calls, and does not raise.
C7_MissingParameterFails ==
    (/\ t_call.op = "execute"
     /\ t_call.name \in BuiltinTools
     /\ \E i \in 1..Len(Parameters(t_call.name)) :
            /\ Parameters(t_call.name)[i][2]
            /\ ~DictHas(t_call.kwargs, Parameters(t_call.name)[i][1])) =>
        /\ ~t_call.out.raised
        /\ t_call.out.result.success = FALSE
        /\ t_call.out.result.error /= NONE
        /\ t_call.out.ext_calls = << >>

C7_Witness ==
    /\ t_call.op = "execute"
    /\ t_call.name = "retrieve_documents"
    /\ DictHas(t_call.kwargs, "query")
    /\ ~DictHas(t_call.kwargs, "collection")
    /\ t_call.ext.first = "ok"
    /\ t_call.out.result.error = "Missing required parameter: collection"

-----------------------------------------------------------------------------
(* Specification SpecReflect: one reflect call, of the model-backed        *)
(* Reflector on every judge text, or of SimpleReflector on every query and *)
(* answer, under each acceptance threshold.                                 *)

JudgeMaxLen == 3
MaxQueryLen == 2
MaxAnswerLen == 2

JudgeTokens ==
    {JTok("text", 0), JTok("lbrace", 0), JTok("rbrace", 0), JTok("field", 0),
     JTok("null_score", 0)}
    \cup {JTok("score", p) : p \in {-20, 50, 70, 150}}

JudgeTexts == UNION {[1..n -> JudgeTokens] : n \in 0..JudgeMaxLen}

Chars == {"a", "A", " ", "."}

Strings(maxlen) == UNION {[1..n -> Chars] : n \in 0..maxlen}

\* min_acceptable_score as the constructor may set it; 0.7 is the default.
Thresholds == {Pct(50), Pct(70)}

InitReflect ==
    /\ RestIdle
    /\ min_acceptable_score \in Thresholds
    /\ r_call = NoReflectCall
    /\ ToolIdle
    /\ PlanIdle
    /\ RunIdle

\* await reflector.reflect(...) on a Reflector
ReflectCall ==
    \E llm \in [fails : {FALSE}, text : JudgeTexts] \cup {[fails |-> TRUE, text |-> << >>]} :
        /\ r_call.op = "none"
        /\ r_call' = [NoReflectCall EXCEPT !.op = "reflect", !.llm = llm,
                          !.out = reflect(min_acceptable_score, llm)]
        /\ UNCHANGED <<min_acceptable_score, toolVars, planVars, runVars, restVars>>

\* await reflector.reflect(...) on a SimpleReflector
SimpleReflectCall ==
    \E query \in Strings(MaxQueryLen), answer \in Strings(MaxAnswerLen), has_docs \in BOOLEAN :
        /\ r_call.op = "none"
        /\ r_call' = [NoReflectCall EXCEPT !.op = "simple_reflect", !.query = query,
                          !.answer = answer, !.has_docs = has_docs,
                          !.out = simple_reflect(min_acceptable_score, query, answer, has_docs)]
        /\ UNCHANGED <<min_acceptable_score, toolVars, planVars, runVars, restVars>>

NextReflect == ReflectCall \/ SimpleReflectCall

SpecReflect == InitReflect /\ [][NextReflect]_vars

\* C8: every ReflectionResult returned by reflect, of Reflector and of
\* SimpleReflector, has should_refine = (overall_score < acceptance threshold),
\* whatever the judge wrote; at overall_score = threshold it is false.
C8_ShouldRefineDerived ==
    (r_call.op \in {"reflect", "simple_reflect"} /\ ~r_call.out.raised) =>
        /\ r_call.out.result.should_refine =
               RatLt(r_call.out.result.overall_score, min_acceptable_score)
        /\ (r_call.out.result.overall_score = min_acceptable_score =>
               ~r_call.out.result.should_refine)

C8_Witness ==
    /\ r_call.op = "reflect"
    /\ ~r_call.out.raised
    /\ min_acceptable_score = Pct(70)
    /\ r_call.out.result.overall_score = Pct(70)
    /\ ~r_call.out.result.should_refine

C8_WitnessSimple ==
    /\ r_call.op = "simple_reflect"
    /\ ~r_call.out.raised
    /\ r_call.out.result.overall_score = min_acceptable_score

\* C9: when the judge text holds no well-formed JSON object, reflect returns
\* the neutral default, overall_score 0.5 and should_refine false under the
\* default threshold 0.7, and does not raise.
C9_ParseFailureNeutral ==
    (/\ r_call.op = "reflect"
     /\ ~r_call.llm.fails
     /\ min_acceptable_score = Pct(70)
     /\ \/ JsonSpan(r_call.llm.text) = <<0, 0>>
        \/ ~JsonLoads(r_call.llm.text, JsonSpan(r_call.llm.text))) =>
        /\ ~r_call.out.raised
        /\ r_call.out.result.overall_score = Pct(50)
        /\ r_call.out.result.should_refine = FALSE

\* C11: every ReflectionResult returned by Reflector.reflect has an
\* overall_score in [0, 1], whatever the judge wrote, a JSON object whose
\* overall_score is below 0 or above 1 included.
C11_ScoreInUnitInterval ==
    (r_call.op = "reflect" /\ ~r_call.out.raised) =>
        /\ RatLe(Pct(0), r_call.out.result.overall_score)
        /\ RatLe(r_call.out.result.overall_score, Pct(100))

-----------------------------------------------------------------------------
(* Specification Spec: one run of ReActAgent.run, cut at its calls on the   *)
(* reasoning model, the tools and the memory.                               *)

\* max_iterations is drawn from 1..MaxIterations.
MaxIterations == 2

\* max_refinements=2 of the reflect_and_refine call of run.
MaxRefinements == 2

\* The query of the run.
Query == "q"

\* The tools AgentService registers.
DefaultTools == {"retrieve_documents", "calculator", "summarize"}

ThoughtText == <<Tok("thought_mark", "", ""), Tok("text", "need docs", "")>>

ActionText(tool, args_str) ==
    <<Tok("action_mark", "", ""), Tok("word", tool, ""), Tok("lparen", "", "")>>
        \o args_str \o <<Tok("rparen", "", "")>>

\* What the reasoning model may answer to a ReAct prompt.
RunTexts ==
    { \* Thought: need docs  Action: retrieve_documents(query="x", collection="y")
      ThoughtText \o ActionText("retrieve_documents",
                                <<Tok("kv", "query", "x"), Tok("kv", "collection", "y")>>),
      \* Action: retrieve_documents(query="x")
      ActionText("retrieve_documents", <<Tok("kv", "query", "x")>>),
      \* Action: no_such_tool()
      ActionText(UnknownTool, << >>),
      \* Thought: need docs  Action: calculator({"expression": "1+1"})
      ThoughtText \o ActionText("calculator", <<Tok("jobj", "expression", "1+1")>>),
      \* Action: calculator("1+1")
      ActionText("calculator", <<Tok("jstr", "", "1+1")>>),
      \* Thought: need docs  Action: Answer(answer="Paris")
      ThoughtText \o ActionText("Answer", <<Tok("kv", "answer", "Paris")>>),
      \* Thought: need docs  Action: Answer
      ThoughtText \o <<Tok("action_mark", "", ""), Tok("word", "Answer", "")>>,
      \* Action: Answer("Paris")
      ActionText("Answer", <<Tok("jstr", "", "Paris")>>),
      \* Paris is the capital.
      <<Tok("text", "Paris is the capital.", "")>> }

\* llm_service.generate: it raises, or returns a text.
LLMOutcomes(texts) == [fails : {FALSE}, text : texts] \cup {[fails |-> TRUE, text |-> << >>]}

\* What the judge may answer to a reflection prompt in a run.
RunJudgeTexts ==
    { <<JTok("text", 0)>>,
      <<JTok("lbrace", 0), JTok("score", 30), JTok("rbrace", 0)>>,
      <<JTok("lbrace", 0), JTok("score", 90), JTok("rbrace", 0)>> }

\* What the model may answer to a refinement prompt.
RewriteTexts == {TextOf("refined")}

\* What the collaborators of the tools do in a run.
RunExtOutcomes == [first : {"ok", "raise"}, second : {"ok"}, docs : {1}]

\* The frame of reflect_and_refine: its arguments answer and max_refinements,
\* its locals current_answer, refinement_count and reflection, who called it,
\* and the answer= argument of its latest self.reflect call.
Frame(caller, answer, max_refinements) ==
    [caller |-> caller, answer |-> answer, max_refinements |-> max_refinements,
     current_answer |-> answer, refinement_count |-> 0, reflection |-> NoReflection,
     reflected |-> << >>]

NoFrame == Frame("none", << >>, 0)

\* run up to its while loop: the response, the prompt, iteration = 0.
Init ==
    /\ RestIdle
    /\ tools = DefaultTools
    /\ t_call = NoToolCall
    /\ ReflIdle
    /\ PlanIdle
    /\ pc = "think"
    /\ max_iterations \in 1..MaxIterations
    /\ enable_reflection \in BOOLEAN
    /\ collection \in {NONE, "docs"}
    /\ iteration = 0
    /\ prompt = _build_react_prompt(Query)
    /\ llm_response = << >>
    /\ thought = << >>
    /\ action = NoAction
    /\ final_answer = << >>
    /\ response = NewResponse
    /\ reflection_result = NoReflection
    /\ rr = NoFrame
    /\ calls = << >>
    /\ memory = << >>
    /\ exception = NONE

\* Mutant: the loop test is <=, one pass too many.
LoopHead_off_by_one(iteration_) == IF iteration_ <= max_iterations THEN "think" ELSE "finish"

\* Where the loop goes after an iteration: `while iteration < self.max_iterations`.
LoopHead(iteration_) == IF iteration_ < max_iterations THEN "think" ELSE "finish"

\* The exception leaves run: nothing is returned.
Raise(exc) ==
    /\ pc' = "raised"
    /\ exception' = exc
    /\ UNCHANGED <<prompt, final_answer, reflection_result, rr, memory>>

\* tool_args after `tool_args["collection"] = collection`
WithCollection(action_) ==
    IF collection /= NONE /\ ~DictHas(action_.args.map, "collection")
       /\ action_.tool = "retrieve_documents"
    THEN [action_ EXCEPT !.args.map = DictSet(@, "collection", collection)]
    ELSE action_

\* One pass of the loop from `iteration += 1` to the tool dispatch: the model
\* call, the parse, the terminate test.
Think ==
    \E llm \in LLMOutcomes(RunTexts) :
        /\ pc = "think"
        /\ iteration' = iteration + 1
        /\ calls' = Append(calls, "generate(react_prompt)")
        /\ IF llm.fails
           THEN /\ Raise("llm error")
                /\ UNCHANGED <<llm_response, thought, action, response>>
           ELSE LET parsed == _parse_react_response(llm.text)
                    steps  == Append(response.intermediate_steps,
                                     [kind |-> "Thought", n |-> iteration + 1,
                                      text |-> parsed.thought])
                IN
                /\ llm_response' = llm.text
                /\ thought' = parsed.thought
                /\ IF parsed.action.none
                   THEN \* action.get on None: AttributeError
                        /\ Raise("AttributeError")
                        /\ action' = parsed.action
                        /\ response' = [response EXCEPT !.intermediate_steps = steps]
                   ELSE IF parsed.action.args.type /= "dict"
                   THEN \* .get on a str, or ** on a str
                        /\ Raise(IF parsed.action.tool = "Answer"
                                 THEN "AttributeError" ELSE "TypeError")
                        /\ action' = parsed.action
                        /\ response' = [response EXCEPT !.intermediate_steps = steps]
                   ELSE IF parsed.action.tool = "Answer"
                   THEN LET answer == IF DictHas(parsed.action.args.map, "answer")
                                      THEN TextOf(DictGet(parsed.action.args.map, "answer", ""))
                                      ELSE llm.text
                        IN
                        /\ action' = parsed.action
                        /\ final_answer' = answer
                        /\ IF enable_reflection
                           THEN /\ pc' = "reflect"
                                /\ response' = [response EXCEPT !.intermediate_steps = steps]
                           ELSE /\ pc' = "finish"
                                /\ response' = [response EXCEPT
                                       !.intermediate_steps = steps,
                                       !.answer = answer,
                                       !.confidence = Pct(80)]
                        /\ UNCHANGED <<prompt, reflection_result, rr, memory, exception>>
                   ELSE /\ action' = WithCollection(parsed.action)
                        /\ response' = [response EXCEPT !.intermediate_steps = steps]
                        /\ pc' = "act"
                        /\ UNCHANGED <<prompt, final_answer, reflection_result, rr, memory,
                                       exception>>
        /\ UNCHANGED <<toolVars, reflVars, planVars, restVars, max_iterations, enable_reflection, collection>>

\* Mutant: a failed tool result ends the loop.
AfterTool_break_on_failure(tool_result, iteration_) ==
    IF tool_result.success THEN LoopHead(iteration_) ELSE "finish"

\* `if not tool_result.success:` at the end of the pass only logs a warning;
\* the loop test comes next whatever the result.
AfterTool(tool_result, iteration_) == LoopHead(iteration_)

\* Mutant: the memory is written at the end of every pass.
Act_updates_memory ==
    \E ext \in RunExtOutcomes :
        LET out == use_tool(tools, action.tool, action.args.map, ext)
            observation == to_string(out.result)
        IN
        /\ pc = "act"
        /\ calls' = Append(calls, "use_tool") \o out.ext_calls \o <<"memory.add">>
        /\ response' = [response EXCEPT
               !.actions = Append(@, AgentAction(action.tool, action.args.map,
                                                 out.result, thought, iteration)),
               !.intermediate_steps = Append(@, [kind |-> "Observation", n |-> iteration,
                                                 text |-> observation])]
        /\ prompt' = _update_react_prompt(prompt, thought, action, observation)
        /\ memory' = memory \o <<[role |-> "user", content |-> TextOf(Query)],
                                  [role |-> "assistant", content |-> response.answer]>>
        /\ pc' = LoopHead(iteration)
        /\ UNCHANGED <<toolVars, reflVars, planVars, restVars, max_iterations, enable_reflection, collection,
                       iteration, llm_response, thought, action, final_answer,
                       reflection_result, rr, exception>>

\* Mutant: the tool is dispatched a second time in the same pass.
Act_twice ==
    \E ext \in RunExtOutcomes :
        LET out == use_tool(tools, action.tool, action.args.map, ext)
            observation == to_string(out.result)
            recorded == AgentAction(action.tool, action.args.map, out.result, thought,
                                    iteration)
        IN
        /\ pc = "act"
        /\ calls' = Append(calls, "use_tool") \o out.ext_calls
                        \o <<"use_tool">> \o out.ext_calls
        /\ response' = [response EXCEPT
               !.actions = @ \o <<recorded, recorded>>,
               !.intermediate_steps = Append(@, [kind |-> "Observation", n |-> iteration,
                                                 text |-> observation])]
        /\ prompt' = _update_react_prompt(prompt, thought, action, observation)
        /\ pc' = LoopHead(iteration)
        /\ UNCHANGED <<toolVars, reflVars, planVars, restVars, max_iterations, enable_reflection,
                       collection, iteration, llm_response, thought, action, final_answer,
                       reflection_result, rr, memory, exception>>

\* The rest of the pass: the tool dispatch, the recorded action, the
\* observation appended to the prompt.
Act ==
    \E ext \in RunExtOutcomes :
        LET out == use_tool(tools, action.tool, action.args.map, ext)
            observation == to_string(out.result)
        IN
        /\ pc = "act"
        /\ calls' = Append(calls, "use_tool") \o out.ext_calls
        /\ response' = [response EXCEPT
               !.actions = Append(@, AgentAction(action.tool, action.args.map,
                                                 out.result, thought, iteration)),
               !.intermediate_steps = Append(@, [kind |-> "Observation", n |-> iteration,
                                                 text |-> observation])]
        /\ prompt' = _update_react_prompt(prompt, thought, action, observation)
        /\ pc' = AfterTool(out.result, iteration)
        /\ UNCHANGED <<toolVars, reflVars, planVars, restVars, max_iterations, enable_reflection, collection,
                       iteration, llm_response, thought, action, final_answer,
                       reflection_result, rr, memory, exception>>

\* Mutant: the loop test of reflect_and_refine is <=, one rewrite too many.
RefineLoopHead_off_by_one(refinement_count, max_refinements) ==
    IF refinement_count <= max_refinements THEN "rr_reflect" ELSE "rr_final"

\* `while refinement_count < max_refinements` of reflect_and_refine.
RefineLoopHead(refinement_count, max_refinements) ==
    IF refinement_count < max_refinements THEN "rr_reflect" ELSE "rr_final"

\* Mutant: the confidence stays that of the first reflection.
Refined_first_score(answer, reflection) ==
    /\ response' = [response EXCEPT
           !.answer = answer,
           !.metadata = DictSet(@, "refinement",
                                [original_answer |-> final_answer,
                                 refined_answer |-> answer,
                                 final_reflection |-> reflection]),
           !.confidence = reflection_result.overall_score]
    /\ pc' = "finish"

\* What run does with the pair reflect_and_refine returns.
Refined(answer, reflection) ==
    /\ response' = [response EXCEPT
           !.answer = answer,
           !.metadata = DictSet(@, "refinement",
                                [original_answer |-> final_answer,
                                 refined_answer |-> answer,
                                 final_reflection |-> reflection]),
           !.confidence = reflection.overall_score]
    /\ pc' = "finish"

\* `return current_answer, reflection` of reflect_and_refine: back in run, or
\* to a direct caller.
RefineReturn(answer, reflection) ==
    IF rr.caller = "run"
    THEN Refined(answer, reflection)
    ELSE /\ pc' = "rr_returned"
         /\ UNCHANGED response

\* The reflection of the candidate answer, and what run does with it.
Reflect ==
    \E llm \in LLMOutcomes(RunJudgeTexts) :
        LET out == reflect(min_acceptable_score, llm) IN
        /\ pc = "reflect"
        /\ calls' = Append(calls, "generate(reflection_prompt)")
        /\ IF out.raised
           THEN /\ pc' = "raised"
                /\ exception' = out.exc
                /\ UNCHANGED <<response, reflection_result, rr>>
           ELSE /\ reflection_result' = out.result
                /\ UNCHANGED exception
                /\ IF out.result.should_refine
                   THEN /\ response' = [response EXCEPT
                               !.metadata = DictSet(@, "reflection", out.result)]
                        /\ rr' = Frame("run", final_answer, MaxRefinements)
                        /\ pc' = RefineLoopHead(0, MaxRefinements)
                   ELSE /\ response' = [response EXCEPT
                               !.metadata = DictSet(@, "reflection", out.result),
                               !.answer = final_answer,
                               !.confidence = out.result.overall_score]
                        /\ pc' = "finish"
                        /\ UNCHANGED rr
        /\ UNCHANGED <<toolVars, reflVars, planVars, restVars, max_iterations, enable_reflection, collection,
                       iteration, prompt, llm_response, thought, action, final_answer, memory>>

\* reflect_and_refine: the reflection at the head of its loop.
RefineReflect ==
    \E llm \in LLMOutcomes(RunJudgeTexts) :
        LET out == reflect(min_acceptable_score, llm) IN
        /\ pc = "rr_reflect"
        /\ calls' = Append(calls, "generate(reflection_prompt)")
        /\ IF out.raised
           THEN /\ pc' = "raised"
                /\ exception' = out.exc
                /\ UNCHANGED <<response, rr>>
           ELSE IF ~out.result.should_refine
           THEN /\ rr' = [rr EXCEPT !.reflection = out.result,
                                     !.reflected = rr.current_answer]
                /\ RefineReturn(rr.current_answer, out.result)
                /\ UNCHANGED exception
           ELSE /\ rr' = [rr EXCEPT !.reflection = out.result,
                                     !.reflected = rr.current_answer]
                /\ pc' = "rr_refine"
                /\ UNCHANGED <<response, exception>>
        /\ UNCHANGED <<toolVars, reflVars, planVars, restVars, max_iterations, enable_reflection, collection,
                       iteration, prompt, llm_response, thought, action, final_answer,
                       reflection_result, memory>>

\* Mutant: the except branch returns an empty answer.
_refine_answer_blank(current_answer, llm) ==
    IF llm.fails THEN << >> ELSE llm.text

\* Reflector._refine_answer: the rewrite, the current answer kept when the
\* model call fails.
_refine_answer(current_answer, llm) ==
    IF llm.fails THEN current_answer ELSE llm.text

\* logger.error("Failed to refine answer", ...) in the except branch of
\* _refine_answer, as an entry of the call log.
RefineFailureLogged == "logger.error(Failed to refine answer)"

\* reflect_and_refine: the rewrite and `refinement_count += 1`.
RefineRewrite ==
    \E llm \in LLMOutcomes(RewriteTexts) :
        /\ pc = "rr_refine"
        /\ calls' = Append(calls, "generate(refinement_prompt)")
                        \o (IF llm.fails THEN <<RefineFailureLogged>> ELSE << >>)
        /\ rr' = [rr EXCEPT !.current_answer = _refine_answer(@, llm),
                            !.refinement_count = @ + 1]
        /\ pc' = RefineLoopHead(rr.refinement_count + 1, rr.max_refinements)
        /\ UNCHANGED <<toolVars, reflVars, planVars, restVars, max_iterations, enable_reflection, collection,
                       iteration, prompt, llm_response, thought, action, final_answer,
                       response, reflection_result, memory, exception>>

\* Mutant: after the loop the reflection of the last pass is returned, no
\* new reflection is made.
RefineFinal_cached ==
    /\ pc = "rr_final"
    /\ RefineReturn(rr.current_answer, rr.reflection)
    /\ UNCHANGED <<toolVars, reflVars, planVars, restVars, max_iterations, enable_reflection, collection,
                   iteration, prompt, llm_response, thought, action, final_answer,
                   reflection_result, rr, calls, memory, exception>>

\* reflect_and_refine: the reflection after the loop.
RefineFinal ==
    \E llm \in LLMOutcomes(RunJudgeTexts) :
        LET out == reflect(min_acceptable_score, llm) IN
        /\ pc = "rr_final"
        /\ calls' = Append(calls, "generate(reflection_prompt)")
        /\ IF out.raised
           THEN /\ pc' = "raised"
                /\ exception' = out.exc
                /\ UNCHANGED <<response, rr>>
           ELSE /\ rr' = [rr EXCEPT !.reflection = out.result,
                                     !.reflected = rr.current_answer]
                /\ RefineReturn(rr.current_answer, out.result)
                /\ UNCHANGED exception
        /\ UNCHANGED <<toolVars, reflVars, planVars, restVars, max_iterations, enable_reflection, collection,
                       iteration, prompt, llm_response, thought, action, final_answer,
                       reflection_result, memory>>

\* ConversationMemory.add / BaseAgent.update_memory
update_memory(memory_, query, response_) ==
    memory_ \o <<[role |-> "user", content |-> TextOf(query)],
                 [role |-> "assistant", content |-> response_.answer]>>

\* Mutant: tools_used holds every tool name once.
RECURSIVE ToolsUsed_distinct(_)
ToolsUsed_distinct(actions) ==
    IF actions = << >> THEN << >>
    ELSE LET n == Len(actions)
             before == ToolsUsed_distinct(SubSeq(actions, 1, n - 1))
         IN IF \E i \in 1..Len(before) : before[i] = actions[n].tool_name
            THEN before ELSE Append(before, actions[n].tool_name)

\* tools_used: [action.tool_name for action in response.actions]
ToolsUsed(actions) == [i \in 1..Len(actions) |-> actions[i].tool_name]

\* After the loop: the metadata, the memory update, the return.
Finish ==
    /\ pc = "finish"
    /\ response' = [response EXCEPT
           !.metadata = << <<"iterations", iteration>>,
                           <<"tools_used", ToolsUsed(response.actions)>>,
                           <<"collection", collection>>,
                           <<"query_length", 1>> >>]
    /\ memory' = update_memory(memory, Query, response')
    /\ calls' = Append(calls, "memory.add")
    /\ pc' = "done"
    /\ UNCHANGED <<toolVars, reflVars, planVars, restVars, max_iterations, enable_reflection, collection,
                   iteration, prompt, llm_response, thought, action, final_answer,
                   reflection_result, rr, exception>>

Next == Think \/ Act \/ Reflect \/ RefineReflect \/ RefineRewrite \/ RefineFinal \/ Finish

Spec == Init /\ [][Next]_vars

\* The parse of the raw model text of the current iteration.
Parsed == _parse_react_response(llm_response)

\* The iteration that produced llm_response dispatched no tool.
NoDispatchThisIteration == Len(response.actions) = iteration - 1 /\ pc /= "act"

\* C1: in every run that returns, metadata.iterations is at most the
\* configured max_iterations, whatever the model and the tools returned.
C1_IterationsBounded ==
    pc = "done" =>
        /\ DictHas(response.metadata, "iterations")
        /\ DictGet(response.metadata, "iterations", 0) <= max_iterations

C1_Witness ==
    /\ pc = "done"
    /\ max_iterations = MaxIterations
    /\ DictGet(response.metadata, "iterations", 0) = max_iterations
    /\ Len(response.actions) = max_iterations

\* C2: when the model text of an iteration yields no parsed action, the run
\* goes to DONE in that iteration without dispatching a tool and without
\* raising, and the answer is the whole raw model text.
C2_ParseFailureIsAnswer ==
    (llm_response /= << >> /\ Parsed.action.none) =>
        /\ NoDispatchThisIteration
        /\ exception /= "AttributeError"
        /\ final_answer = llm_response
        /\ (~enable_reflection => pc \in {"finish", "done"} /\ response.answer = llm_response)

\* C3: when the parsed tool name is "Answer", the run dispatches no tool,
\* ends the loop in that iteration, and takes the candidate answer from the
\* `answer` argument if present, otherwise from the entire raw model text.
C3_AnswerTerminates ==
    (llm_response /= << >> /\ ~Parsed.action.none /\ Parsed.action.tool = "Answer") =>
        /\ NoDispatchThisIteration
        /\ pc /= "think"
        /\ exception \notin {"AttributeError", "TypeError"}
        /\ final_answer =
               IF Parsed.action.args.type = "dict" /\ DictHas(Parsed.action.args.map, "answer")
               THEN TextOf(DictGet(Parsed.action.args.map, "answer", ""))
               ELSE llm_response

\* C4: when max_iterations passes each dispatched a tool, the run is forced
\* to end and returns the last raw model text as the answer, with a default
\* confidence that no reflection computed.
C4_BudgetExhaustedAnswer ==
    (pc = "done" /\ Len(response.actions) = max_iterations) =>
        /\ response.answer = llm_response
        /\ reflection_result = NoReflection
        /\ response.confidence = NewResponse.confidence

\* C10: when the model call of the reflection step fails, run still returns
\* the candidate answer in a complete AgentResponse: the failure leaves
\* neither reflect nor run.
C10_ReflectionFailureContained ==
    ~(pc = "raised" /\ exception = "Reflection evaluation failed: llm error")

\* How many times the call named tag was made.
CallCount(tag) == Cardinality({i \in 1..Len(calls) : calls[i] = tag})

\* The run obtained an answer: its last model text parsed to the Answer action.
Answered == pc = "done" /\ ~action.none /\ action.tool = "Answer"

-----------------------------------------------------------------------------
(* Specification SpecRefine: one call of Reflector.reflect_and_refine, with *)
(* each max_refinements, each acceptance threshold and every outcome of the *)
(* judge and rewrite calls.                                                  *)

\* max_refinements is drawn from 0..MaxMaxRefinements.
MaxMaxRefinements == 3

\* The answer handed to reflect_and_refine.
RefineAnswers == {TextOf("Paris"), << >>}

InitRefine ==
    /\ RestIdle
    /\ ToolIdle
    /\ min_acceptable_score \in Thresholds
    /\ r_call = NoReflectCall
    /\ PlanIdle
    /\ pc = "rr_idle"
    /\ max_iterations = 0
    /\ enable_reflection = FALSE
    /\ collection = NONE
    /\ iteration = 0
    /\ prompt = << >>
    /\ llm_response = << >>
    /\ thought = << >>
    /\ action = [tool |-> NONE]
    /\ final_answer = << >>
    /\ response = [answer |-> << >>]
    /\ reflection_result = [op |-> "none"]
    /\ rr = NoFrame
    /\ calls = << >>
    /\ memory = << >>
    /\ exception = NONE

\* await reflector.reflect_and_refine(query, answer, max_refinements=...): the
\* frame is set up and the loop test is made for the first time.
ReflectAndRefine ==
    \E answer \in RefineAnswers, max_refinements \in 0..MaxMaxRefinements :
        /\ pc = "rr_idle"
        /\ rr' = Frame("direct", answer, max_refinements)
        /\ pc' = RefineLoopHead(0, max_refinements)
        /\ UNCHANGED <<toolVars, reflVars, planVars, restVars, max_iterations, enable_reflection, collection,
                       iteration, prompt, llm_response, thought, action, final_answer,
                       response, reflection_result, calls, memory, exception>>

NextRefine == ReflectAndRefine \/ RefineReflect \/ RefineRewrite \/ RefineFinal

SpecRefine == InitRefine /\ [][NextRefine]_vars

\* C12: for every max_refinements >= 0 and every sequence of judge and rewrite
\* outputs, reflect_and_refine makes at most max_refinements rewrite calls to
\* the model before it returns.
C12_RewritesBounded ==
    rr.caller = "direct" =>
        CallCount("generate(refinement_prompt)") <= rr.max_refinements

C12_Witness ==
    /\ pc = "rr_returned"
    /\ rr.max_refinements = MaxMaxRefinements
    /\ CallCount("generate(refinement_prompt)") = rr.max_refinements

\* C13: the ReflectionResult reflect_and_refine returns is the result of a
\* reflect call made on exactly the answer it returns, with no rewrite after
\* it: once the cap is hit the last candidate is reflected anew and that
\* reflection is returned, below the threshold or not.
C13_ReflectionOfReturnedAnswer ==
    pc = "rr_returned" =>
        /\ Len(calls) >= 1
        /\ calls[Len(calls)] = "generate(reflection_prompt)"
        /\ rr.reflected = rr.current_answer
        /\ (rr.refinement_count < rr.max_refinements => ~rr.reflection.should_refine)
        /\ CallCount("generate(reflection_prompt)") = rr.refinement_count + 1

C13_Witness ==
    /\ pc = "rr_returned"
    /\ rr.max_refinements >= 1
    /\ rr.refinement_count = rr.max_refinements
    /\ rr.current_answer /= rr.answer
    /\ rr.reflection.should_refine

-----------------------------------------------------------------------------
(* Specification SpecPlan: one call on a QueryPlanner: classify_query and   *)
(* plan on every query made of the vocabulary, plan with every outcome of   *)
(* the planning model, and _determine_execution_order on every list of      *)
(* sub-queries a caller builds within the bounds.                            *)

\* A query holds at most MaxQueryWords words.
MaxQueryWords == 2

\* A list holds at most MaxSubQueries sub-queries, with ids in
\* 1..MaxSubQueries, and at most MaxDependencies dependency entries in all.
MaxSubQueries == 3
MaxDependencies == 3

\* The words of the queries: keywords of each category, one in capitals, one
\* word that holds a keyword inside ("sum" in "summary"), the two halves of a
\* keyword with a blank ("how many"), and a word that holds none.
Vocabulary ==
    { <<"C", "a", "l", "c", "u", "l", "a", "t", "e">>,
      <<"d", "i", "f", "f", "e", "r", "e", "n", "c", "e">>,
      <<"a", "l", "s", "o">>,
      <<"e", "a", "c", "h">>,
      <<"w", "h", "y">>,
      <<"s", "u", "m", "m", "a", "r", "y">>,
      <<"h", "o", "w">>,
      <<"m", "a", "n", "y">>,
      <<"P", "a", "r", "i", "s">> }

\* " ".join(words)
RECURSIVE JoinWords(_)
JoinWords(words) ==
    IF words = << >> THEN << >>
    ELSE IF Len(words) = 1 THEN words[1]
    ELSE words[1] \o <<" ">> \o JoinWords(Tail(words))

Queries ==
    {JoinWords(words) : words \in UNION {[1..n -> Vocabulary] : n \in 0..MaxQueryWords}}

\* What the planning model may answer to the decomposition prompt.
PlanResponses ==
    { \* I cannot plan this.
      <<PTok("text", 0)>>,
      \* {}
      <<PTok("lbrace", 0), PTok("rbrace", 0)>>,
      \* { not json }
      <<PTok("lbrace", 0), PTok("text", 0), PTok("rbrace", 0)>>,
      \* {"sub_queries": [...]} {}
      <<PTok("lbrace", 0), PTok("sub_queries", 2), PTok("rbrace", 0),
        PTok("lbrace", 0), PTok("rbrace", 0)>>,
      \* Here is the plan: {"description": ..., "sub_queries": [...]} Done.
      <<PTok("text", 0), PTok("lbrace", 0), PTok("description", 0),
        PTok("sub_queries", 3), PTok("rbrace", 0), PTok("text", 0)>> }
    \cup {<<PTok("lbrace", 0), PTok("sub_queries", n), PTok("rbrace", 0)>> :
              n \in 1..Len(Decompositions)}

InitPlan ==
    /\ RestIdle
    /\ ToolIdle
    /\ ReflIdle
    /\ PlanIdle
    /\ RunIdle

\* planner.classify_query(query)
ClassifyQuery ==
    /\ p_call.op = "none"
    /\ \E query \in Queries :
           p_call' = [NoPlanCall EXCEPT !.op = "classify_query", !.query = query,
                          !.out = classify_query(query)]
    /\ UNCHANGED <<toolVars, reflVars, runVars, restVars>>

\* await planner.plan(query); the model's outcome is kept when it was asked.
Plan ==
    /\ p_call.op = "none"
    /\ \E query \in Queries, llm \in LLMOutcomes(PlanResponses) :
           LET out == plan(query, llm) IN
           p_call' = [NoPlanCall EXCEPT !.op = "plan", !.query = query,
                          !.llm = IF out.llm_calls > 0 THEN llm ELSE @,
                          !.out = out]
    /\ UNCHANGED <<toolVars, reflVars, runVars, restVars>>

\* The dependency entries of a list of sub-queries, in all.
RECURSIVE DependencyCount(_)
DependencyCount(sub_queries) ==
    IF sub_queries = << >> THEN 0
    ELSE Len(Head(sub_queries).dependencies) + DependencyCount(Tail(sub_queries))

\* The ids a caller gives: 1, 2, 3, ... in declaration order, or
\* MaxSubQueries, MaxSubQueries - 1, ...; the id of the next sub-query is the
\* next of the series or, a duplicate, the id of the sub-query before it.
NextIds(sub_queries) ==
    IF sub_queries = << >> THEN {1, MaxSubQueries}
    ELSE {sub_queries[Len(sub_queries)].id}
             \cup (IF sub_queries[1].id = 1 THEN {Len(sub_queries) + 1}
                   ELSE {MaxSubQueries - Len(sub_queries)})

\* A caller appends SubQuery(id, text, dependencies) to its list; a dependency
\* is any id of 1..MaxSubQueries, declared in the list or not.
AppendSubQuery ==
    /\ p_call.op \in {"none", "build"}
    /\ Len(p_call.sub_queries) < MaxSubQueries
    /\ \E id \in NextIds(p_call.sub_queries),
          n \in 0..(MaxDependencies - DependencyCount(p_call.sub_queries)) :
           \E dependencies \in [1..n -> 1..MaxSubQueries] :
               p_call' = [p_call EXCEPT !.op = "build",
                              !.sub_queries = Append(@, SubQuery(id, "part", dependencies,
                                                                  NONE, 0))]
    /\ UNCHANGED <<toolVars, reflVars, runVars, restVars>>

\* planner._determine_execution_order(sub_queries) on the list built.
DetermineExecutionOrder ==
    /\ p_call.op \in {"none", "build"}
    /\ p_call' = [p_call EXCEPT !.op = "_determine_execution_order",
                      !.out = _determine_execution_order(p_call.sub_queries)]
    /\ UNCHANGED <<toolVars, reflVars, runVars, restVars>>

NextPlan == ClassifyQuery \/ Plan \/ AppendSubQuery \/ DetermineExecutionOrder

SpecPlan == InitPlan /\ [][NextPlan]_vars

\* The categories of classify_query in the order it tests them, and the
\* keyword list of each.
PriorityOrder == <<"calculation", "comparison", "multi_part", "recursive", "reasoning">>

KeywordsOf(query_type) ==
    CASE query_type = "calculation" -> CalculationWords
      [] query_type = "comparison"  -> ComparisonWords
      [] query_type = "multi_part"  -> MultiPartWords
      [] query_type = "recursive"   -> RecursiveWords
      [] query_type = "reasoning"   -> ReasoningWords

\* The places in PriorityOrder of the categories with a keyword in the query.
Matching(query) ==
    {k \in 1..Len(PriorityOrder) : AnyOccurs(KeywordsOf(PriorityOrder[k]), Lower(query))}

\* C15: classify_query returns the first category, in the order CALCULATION >
\* COMPARISON > MULTI_PART > RECURSIVE > REASONING, with a keyword occurring in
\* the lower-cased query, SIMPLE when there is none; a query with a
\* calculation keyword and a comparison keyword is CALCULATION.
C15_FirstMatchClassification ==
    p_call.op = "classify_query" =>
        LET hits == Matching(p_call.query) IN
        /\ p_call.out = IF hits = {} THEN "simple"
                        ELSE PriorityOrder[CHOOSE k \in hits : \A j \in hits : k <= j]
        /\ ({1, 2} \subseteq hits => p_call.out = "calculation")

C15_Witness ==
    /\ p_call.op = "classify_query"
    /\ {1, 2} \subseteq Matching(p_call.query)
    /\ p_call.query /= Lower(p_call.query)
    /\ p_call.out = "calculation"

\* A call that computed an execution order: the sub-queries it was computed
\* for and the order.
HasOrder == p_call.op \in {"_determine_execution_order", "plan"}

OrderedSubQueries ==
    IF p_call.op = "plan" THEN p_call.out.plan.sub_queries ELSE p_call.sub_queries

ExecutionOrder ==
    IF p_call.op = "plan" THEN p_call.out.plan.execution_order ELSE p_call.out

\* The declared dependency graph: the declared ids, and an edge from an id to
\* every id its sub-query lists as a dependency.
Declared(sub_queries) == {sub_queries[i].id : i \in 1..Len(sub_queries)}

Edges(sub_queries) ==
    UNION {{<<sub_queries[i].id, sub_queries[i].dependencies[j]>> :
                j \in 1..Len(sub_queries[i].dependencies)} : i \in 1..Len(sub_queries)}

RECURSIVE Closure(_, _)
Closure(edges, nodes) ==
    LET next == nodes \cup {e[2] : e \in {f \in edges : f[1] \in nodes}}
    IN IF next = nodes THEN nodes ELSE Closure(edges, next)

\* Some id depends on itself, directly or through other ids.
Cyclic(sub_queries) ==
    \E a \in Declared(sub_queries) :
        a \in Closure(Edges(sub_queries),
                      {e[2] : e \in {f \in Edges(sub_queries) : f[1] = a}})

\* Every sub-query is in the order, after each of its declared dependencies.
PlacedAfterDependencies(sub_queries, order) ==
    \A e \in Edges(sub_queries) \cup {<<a, a>> : a \in Declared(sub_queries)} :
        /\ InList(e[1], order)
        /\ (e[1] /= e[2] /\ e[2] \in Declared(sub_queries)) =>
               \A p \in 1..Len(order) :
                   order[p] = e[1] => \E q \in 1..(p - 1) : order[q] = e[2]

\* C16: for every list of sub-queries whose declared dependency graph is
\* acyclic, the execution order places every sub-query after all of its
\* declared dependencies.
C16_DependenciesFirst ==
    (HasOrder /\ ~Cyclic(OrderedSubQueries)) =>
        PlacedAfterDependencies(OrderedSubQueries, ExecutionOrder)

\* C17: for every list of sub-queries whose dependency graph holds a cycle (of
\* two ids, of more, or an id depending on itself), _determine_execution_order
\* returns the ids in declaration order; it has no raising outcome.
C17_CycleFallsBack ==
    (HasOrder /\ Cyclic(OrderedSubQueries)) =>
        ExecutionOrder = IdsOf(OrderedSubQueries)

C17_Witness ==
    /\ p_call.op = "_determine_execution_order"
    /\ Len(p_call.sub_queries) = 3
    /\ p_call.sub_queries[1].dependencies = <<p_call.sub_queries[2].id>>
    /\ p_call.sub_queries[2].dependencies = <<p_call.sub_queries[3].id>>
    /\ p_call.sub_queries[3].dependencies = <<p_call.sub_queries[1].id>>
    /\ p_call.sub_queries[1].id /= 1
    /\ p_call.out = IdsOf(p_call.sub_queries)

\* order holds every declared id exactly once and nothing else.
IsArrangement(sub_queries, order) ==
    /\ Len(order) = Len(sub_queries)
    /\ \A a \in Declared(sub_queries) :
           Cardinality({p \in 1..Len(order) : order[p] = a}) =
           Cardinality({i \in 1..Len(sub_queries) : sub_queries[i].id = a})
    /\ \A p \in 1..Len(order) : order[p] \in Declared(sub_queries)

\* C18: the execution order is a valid topological order of the declared
\* dependency graph for every decomposition, the declaration order being
\* returned in its place only when the graph holds a cycle: a dependency list
\* that repeats an id or names an undeclared id does not bring the fallback.
C18_TopologicalUnlessCyclic ==
    HasOrder =>
        /\ IsArrangement(OrderedSubQueries, ExecutionOrder)
        /\ IF Cyclic(OrderedSubQueries)
           THEN ExecutionOrder = IdsOf(OrderedSubQueries)
           ELSE PlacedAfterDependencies(OrderedSubQueries, ExecutionOrder)

\* The plan is the single-step plan of query: one sub-query, the query
\* itself, no dependencies, the order its id, one estimated step.
IsSingleQueryPlan(plan_, query) ==
    /\ plan_.original_query = query
    /\ Len(plan_.sub_queries) = 1
    /\ plan_.sub_queries[1].text = query
    /\ plan_.sub_queries[1].dependencies = << >>
    /\ plan_.execution_order = <<plan_.sub_queries[1].id>>
    /\ plan_.estimated_steps = 1

\* C19: for every query classified SIMPLE, plan makes no call on the
\* reasoning model and returns a plan of exactly one sub-query whose text is
\* the query, with no dependencies, execution_order that one id and
\* estimated_steps 1.
C19_SimpleShortCircuit ==
    (p_call.op = "plan" /\ Matching(p_call.query) = {}) =>
        /\ ~p_call.out.raised
        /\ p_call.out.llm_calls = 0
        /\ p_call.out.plan.query_type = "simple"
        /\ IsSingleQueryPlan(p_call.out.plan, p_call.query)

C19_Witness ==
    /\ p_call.op = "plan"
    /\ Matching(p_call.query) = {}
    /\ Len(p_call.query) > 0
    /\ p_call.out.llm_calls = 0
    /\ p_call.out.plan.estimated_steps = 1

\* The decomposition of the call failed: the model call raised, its text
\* holds no JSON object that loads, or an element of its sub_queries list
\* lacks "id" or "text".
DecompositionFailed ==
    \/ p_call.llm.fails
    \/ ~LoadsDict(_extract_json(p_call.llm.text))
    \/ \E i \in 1..Len(SubQueriesOf(_extract_json(p_call.llm.text))) :
           \/ ~DictHas(SubQueriesOf(_extract_json(p_call.llm.text))[i], "id")
           \/ ~DictHas(SubQueriesOf(_extract_json(p_call.llm.text))[i], "text")

\* C20: for every query that is not SIMPLE, when the decomposition model call
\* fails or its output cannot be parsed into sub-queries, plan does not raise
\* and returns the single-step plan of the query.
C20_DecompositionFailureDegrades ==
    (p_call.op = "plan" /\ Matching(p_call.query) /= {} /\ DecompositionFailed) =>
        /\ ~p_call.out.raised
        /\ p_call.out.llm_calls = 1
        /\ IsSingleQueryPlan(p_call.out.plan, p_call.query)

C20_Witness ==
    /\ p_call.op = "plan"
    /\ Matching(p_call.query) /= {}
    /\ ~p_call.llm.fails
    /\ JsonSpan(p_call.llm.text) /= <<0, 0>>
    /\ DecompositionFailed
    /\ ~p_call.out.raised
    /\ IsSingleQueryPlan(p_call.out.plan, p_call.query)

-----------------------------------------------------------------------------
(* Further properties of Spec, the run of ReActAgent.run. *)

\* C21: in the response of every run the step values of the recorded
\* AgentActions are 1, 2, ..., n in list order, one action per tool dispatch.
C21_StepsContiguous ==
    /\ \A i \in 1..Len(response.actions) : response.actions[i].step = i
    /\ Len(response.actions) = CallCount("use_tool")

C21_Witness ==
    /\ pc = "done"
    /\ Len(response.actions) = 2
    /\ response.actions[2].step = 2

\* The places of the call log where the reasoning model was asked for a step.
ModelCalls == {i \in 1..Len(calls) : calls[i] = "generate(react_prompt)"}

\* C23: within one run the calls on the reasoning model and on the tools are
\* made one after the other: the model is asked for the next step only when
\* the tool dispatch of the previous pass has returned and is recorded, and
\* each pass dispatches at most one tool.
C23_OneCallAtATime ==
    /\ Cardinality(ModelCalls) = iteration
    /\ CallCount("use_tool") <= iteration
    /\ CallCount("use_tool") >= iteration - 1
    /\ (pc = "think" => /\ CallCount("use_tool") = iteration
                        /\ Len(response.actions) = iteration)
    /\ \A i, j \in ModelCalls :
           (i < j /\ ~\E k \in ModelCalls : i < k /\ k < j) =>
               Cardinality({k \in (i + 1)..(j - 1) : calls[k] = "use_tool"}) = 1

C23_Witness ==
    /\ Cardinality(ModelCalls) = 2
    /\ CallCount("use_tool") = 2
    /\ calls[1] = "generate(react_prompt)"
    /\ calls[2] = "use_tool"

\* What pass i appended to the transcript: its thought, the echo of its
\* action and its observation, up to the next Thought: marker.
RECURSIVE Transcript(_)
Transcript(actions) ==
    IF actions = << >> THEN _build_react_prompt(Query)
    ELSE LET n == Len(actions)
             a == actions[n]
         IN Transcript(SubSeq(actions, 1, n - 1))
                \o a.thought
                \o <<Tok("action_mark", "", ""), Tok("word", a.tool_name, ""),
                     Tok("lparen", "", "")>>
                \o [i \in 1..Len(a.tool_input) |->
                        Tok("kv", a.tool_input[i][1], a.tool_input[i][2])]
                \o <<Tok("rparen", "", ""), Tok("text", "Observation:", "")>>
                \o to_string(a.tool_output)
                \o <<Tok("thought_mark", "", "")>>

\* C24: within one run the transcript only grows: the prompt of pass i + 1 is
\* the prompt of pass i followed by the thought, the action echo and the
\* observation of pass i; nothing is cut or removed.
C24_TranscriptGrows ==
    pc \in {"think", "act", "reflect", "finish", "done", "raised"} =>
        /\ prompt = Transcript(response.actions)
        /\ \A n \in 1..Len(response.actions) :
               LET before == Transcript(SubSeq(response.actions, 1, n - 1))
               IN /\ Len(before) < Len(prompt)
                  /\ SubSeq(prompt, 1, Len(before)) = before

C24_Witness ==
    /\ pc = "done"
    /\ Len(response.actions) = 2
    /\ Len(prompt) > Len(Transcript(SubSeq(response.actions, 1, 1)))

\* C26: the metadata of the response of every run in which reflection was
\* performed holds the reflection record next to iterations and tools_used,
\* and that of every run in which the refinement loop ran the refinement
\* record too.
C26_MetadataKeepsReflection ==
    pc = "done" =>
        /\ DictHas(response.metadata, "iterations")
        /\ DictHas(response.metadata, "tools_used")
        /\ (CallCount("generate(reflection_prompt)") >= 1 =>
                DictHas(response.metadata, "reflection"))
        /\ (rr.caller = "run" => DictHas(response.metadata, "refinement"))

\* C27: _parse_react_response does not raise, and every action it returns
\* carries an argument map, also when the parenthesized content is JSON that
\* is not an object; so what is handed to the tool dispatch is always a map
\* and the run does not fail on it.
C27_ArgumentsAreAMap ==
    (llm_response /= << >> /\ ~Parsed.action.none) =>
        /\ Parsed.action.args.type = "dict"
        /\ exception \notin {"AttributeError", "TypeError"}

\* The model text Action: retrieve_documents(query="x", collection="y"), with
\* a thought before it or not.
KeyValueExample(text) ==
    \/ text = ActionText("retrieve_documents",
                         <<Tok("kv", "query", "x"), Tok("kv", "collection", "y")>>)
    \/ text = ThoughtText \o ActionText("retrieve_documents",
                                        <<Tok("kv", "query", "x"), Tok("kv", "collection", "y")>>)

\* C28: when the model text names a registered tool with key="value"
\* arguments, Action: retrieve_documents(query="x", collection="y"), the pass
\* dispatches that tool with the argument map {query: "x", collection: "y"}
\* and records them as tool name and input of the AgentAction.
C28_KeyValueDispatch ==
    (KeyValueExample(llm_response) /\ pc \notin {"raised"}) =>
        /\ action.tool = "retrieve_documents"
        /\ action.args = DictArgs(<< <<"query", "x">>, <<"collection", "y">> >>)
        /\ pc /= "act" =>
               /\ Len(response.actions) = iteration
               /\ calls[Len(calls)] /= "generate(react_prompt)"
               /\ response.actions[iteration].tool_name = "retrieve_documents"
               /\ response.actions[iteration].tool_input =
                      << <<"query", "x">>, <<"collection", "y">> >>
               /\ \E ext \in RunExtOutcomes :
                      response.actions[iteration].tool_output =
                          RetrievalExecute(<< <<"query", "x">>, <<"collection", "y">> >>,
                                           ext).result

C28_Witness ==
    /\ KeyValueExample(llm_response)
    /\ collection = "docs"
    /\ pc = "done"
    /\ response.actions[iteration].tool_output.success

-----------------------------------------------------------------------------
(* A further property of SpecReflect. *)

\* C29: SimpleReflector.reflect returns for every query and answer, the
\* empty query and the empty answer included, with or without retrieved
\* documents: it does not raise, its overall_score lies in [0, 1], and its
\* should_refine is derived from the threshold.
C29_SimpleReflectorTotal ==
    r_call.op = "simple_reflect" =>
        /\ ~r_call.out.raised
        /\ RatLe(Rat(0, 1), r_call.out.result.overall_score)
        /\ RatLe(r_call.out.result.overall_score, Rat(1, 1))
        /\ r_call.out.result.should_refine =
               RatLt(r_call.out.result.overall_score, min_acceptable_score)

-----------------------------------------------------------------------------
(* Specification SpecRegistry: an agent is constructed with a list of tools   *)
(* and add_tool and remove_tool are called on it in any order.               *)

MaxAgentCalls == 3

\* Two calculator objects of one category, a third tool of the same name in
\* another category, and a tool of another name.
ToolObjects ==
    {ToolObject("calculator", "calculation", 1), ToolObject("calculator", "calculation", 2),
     ToolObject("calculator", "utility", 3), ToolObject("summarize", "generation", 4)}

\* The lists the constructor is given: tools of distinct names.
ConstructorLists ==
    {<< >>} \cup {<<t>> : t \in ToolObjects}
        \cup {pair \in {<<t, u>> : t \in ToolObjects, u \in ToolObjects} :
                  pair[1].name /= pair[2].name}

InitRegistry ==
    /\ MgrIdle
    /\ CoIdle
    /\ agent \in {NewAgent(tool_list) : tool_list \in ConstructorLists}
    /\ a_call = NoAgentCall
    /\ ToolIdle
    /\ ReflIdle
    /\ PlanIdle
    /\ RunIdle
    /\ MemIdle
    /\ SvcIdle

\* agent.add_tool(tool)
AddTool ==
    /\ a_call.n < MaxAgentCalls
    /\ \E tool \in ToolObjects :
           /\ agent' = add_tool(agent, tool)
           /\ a_call' = [NoAgentCall EXCEPT !.op = "add_tool", !.name = tool.name,
                             !.n = a_call.n + 1]
    /\ UNCHANGED <<toolVars, reflVars, planVars, runVars, memVars, svcVars, mgrVars, coVars>>

\* agent.remove_tool(tool_name)
RemoveTool ==
    /\ a_call.n < MaxAgentCalls
    /\ \E tool_name \in {t.name : t \in ToolObjects} \cup {UnknownTool} :
           LET out == remove_tool(agent, tool_name)
           IN /\ agent' = out.self
              /\ a_call' = [NoAgentCall EXCEPT !.op = "remove_tool", !.name = tool_name,
                                !.returned = out.returned, !.raised = out.raised,
                                !.n = a_call.n + 1]
    /\ UNCHANGED <<toolVars, reflVars, planVars, runVars, memVars, svcVars, mgrVars, coVars>>

NextRegistry == AddTool \/ RemoveTool

SpecRegistry == InitRegistry /\ [][NextRegistry]_vars

\* The categories that have a list.
Categories == DictKeys(agent.tools_by_category)

\* C22: after construction and any sequence of add_tool and remove_tool
\* calls, adding a tool whose name is already registered included, the index
\* by name and the index by category hold exactly the same tools: every tool
\* get_tools(category) returns is the one registered under its name and is
\* listed once, and every registered tool is listed under its category.
C22_IndexesAgree ==
    /\ \A c \in Categories :
           LET listed == get_tools(agent, c)
           IN \A j \in 1..Len(listed) :
                  /\ DictHas(agent.tools, listed[j].name)
                  /\ DictGet(agent.tools, listed[j].name, NONE) = listed[j]
                  /\ \A k \in 1..Len(listed) : listed[k] = listed[j] => k = j
    /\ \A name \in DictKeys(agent.tools) :
           LET tool == DictGet(agent.tools, name, NONE)
               listed == get_tools(agent, tool.category)
           IN \E j \in 1..Len(listed) : listed[j] = tool

-----------------------------------------------------------------------------
(* Specification SpecMemory: a ConversationMemory is constructed with some   *)
(* max_messages; add is called on it, inside a conversation or outside.      *)

MaxMessages == 3
MaxAdds == 3

ConversationIds == {"c1", "c2"}

InitMemory ==
    /\ MgrIdle
    /\ CoIdle
    /\ conversation_memory \in {NewConversationMemory(m) : m \in 0..MaxMessages}
    /\ m_call = NoMemoryCall
    /\ ToolIdle
    /\ ReflIdle
    /\ PlanIdle
    /\ RunIdle
    /\ RegIdle
    /\ SvcIdle

\* memory.add(query, response): the n-th call passes query n and answer n.
MemoryAdd ==
    /\ m_call.adds < MaxAdds
    /\ conversation_memory' = add(conversation_memory, m_call.adds + 1, m_call.adds + 1)
    /\ m_call' = [op |-> "add", adds |-> m_call.adds + 1]
    /\ UNCHANGED <<toolVars, reflVars, planVars, runVars, regVars, svcVars, mgrVars, coVars>>

\* memory.start_conversation(conversation_id)
StartConversation ==
    /\ \E id \in ConversationIds :
           /\ conversation_memory.current_conversation_id /= id
           /\ conversation_memory' = start_conversation(conversation_memory, id)
    /\ m_call' = [m_call EXCEPT !.op = "start_conversation"]
    /\ UNCHANGED <<toolVars, reflVars, planVars, runVars, regVars, svcVars, mgrVars, coVars>>

\* memory.end_conversation()
EndConversation ==
    /\ conversation_memory.current_conversation_id /= NONE
    /\ conversation_memory' = end_conversation(conversation_memory)
    /\ m_call' = [m_call EXCEPT !.op = "end_conversation"]
    /\ UNCHANGED <<toolVars, reflVars, planVars, runVars, regVars, svcVars, mgrVars, coVars>>

NextMemory == MemoryAdd \/ StartConversation \/ EndConversation

SpecMemory == InitMemory /\ [][NextMemory]_vars

\* Every message the first n add calls appended, in insertion order.
AllAdded(n) ==
    [i \in 1..(2 * n) |-> Message(IF i % 2 = 1 THEN "user" ELSE "assistant", (i + 1) \div 2)]

\* C30: after any sequence of add calls the global message list holds at
\* most max_messages messages, and they are the most recent ones in
\* insertion order.
C30_GlobalMessagesBounded ==
    LET kept == conversation_memory.global_messages
        all == AllAdded(m_call.adds)
    IN /\ Len(kept) <= conversation_memory.max_messages
       /\ Len(kept) <= Len(all)
       /\ kept = SubSeq(all, Len(all) - Len(kept) + 1, Len(all))

-----------------------------------------------------------------------------
(* Specification SpecService: AgentService.query is called on a service      *)
(* constructed with or without memory; the run inside it is ReActAgent.run.  *)

AgentTypes == {"react", "plan"}

InitService ==
    /\ MgrIdle
    /\ CoIdle
    /\ s_call \in {[NoServiceCall EXCEPT !.use_memory = m] : m \in BOOLEAN}
    /\ tools = DefaultTools
    /\ t_call = NoToolCall
    /\ ReflIdle
    /\ PlanIdle
    /\ RegIdle
    /\ MemIdle
    /\ pc = "idle"
    /\ max_iterations \in 1..MaxIterations
    /\ enable_reflection = FALSE
    /\ collection = NONE
    /\ iteration = 0
    /\ prompt = << >>
    /\ llm_response = << >>
    /\ thought = << >>
    /\ action = NoAction
    /\ final_answer = << >>
    /\ response = NewResponse
    /\ reflection_result = NoReflection
    /\ rr = NoFrame
    /\ calls = << >>
    /\ memory = << >>
    /\ exception = NONE

\* query up to `await agent.run`: the agent is created for agent_type
\* "react", AgentError is raised for any other; BaseAgent.__init__ evaluates
\* `memory or Memory()`, and Memory is abstract, so a service without memory
\* fails there with TypeError.
QueryStart ==
    /\ s_call.op = "none"
    /\ pc = "idle"
    /\ \E agent_type \in AgentTypes, reflection \in BOOLEAN, coll \in {NONE, "docs"} :
           /\ s_call' = [s_call EXCEPT !.op = "running", !.agent_type = agent_type]
           /\ IF agent_type /= "react"
              THEN /\ pc' = "raised"
                   /\ exception' = "AgentError"
                   /\ UNCHANGED <<enable_reflection, collection, prompt>>
              ELSE IF ~s_call.use_memory
              THEN /\ pc' = "raised"
                   /\ exception' = "TypeError"
                   /\ UNCHANGED <<enable_reflection, collection, prompt>>
              ELSE /\ pc' = LoopHead(0)
                   /\ enable_reflection' = reflection
                   /\ collection' = coll
                   /\ prompt' = _build_react_prompt(Query)
                   /\ UNCHANGED exception
    /\ UNCHANGED <<toolVars, reflVars, planVars, regVars, memVars, mgrVars, coVars,
                   max_iterations, iteration,
                   llm_response, thought, action, final_answer, response,
                   reflection_result, rr, calls, memory>>

\* run returned: the result dict with success True.
QueryReturn ==
    /\ s_call.op = "running"
    /\ pc = "done"
    /\ s_call' = [s_call EXCEPT
           !.op = "returned",
           !.result = [success |-> TRUE, answer |-> response.answer, error |-> NONE,
                       iterations |-> DictGet(response.metadata, "iterations", 0),
                       tools_used |-> DictGet(response.metadata, "tools_used", << >>)]]
    /\ UNCHANGED <<toolVars, reflVars, planVars, runVars, regVars, memVars, mgrVars, coVars>>

\* Mutant: the handler catches AgentError only.
QueryExcept_agent_error_only ==
    /\ s_call.op = "running"
    /\ pc = "raised"
    /\ s_call' = IF exception = "AgentError"
                 THEN [s_call EXCEPT !.op = "returned", !.result.error = exception]
                 ELSE [s_call EXCEPT !.op = "returned", !.raised = TRUE]
    /\ UNCHANGED <<toolVars, reflVars, planVars, runVars, regVars, memVars, mgrVars, coVars>>

\* `except Exception as e`: the failure envelope.
QueryExcept ==
    /\ s_call.op = "running"
    /\ pc = "raised"
    /\ s_call' = [s_call EXCEPT
           !.op = "returned",
           !.result = [success |-> FALSE, answer |-> NONE, error |-> exception,
                       iterations |-> 0, tools_used |-> << >>]]
    /\ UNCHANGED <<toolVars, reflVars, planVars, runVars, regVars, memVars, mgrVars, coVars>>

NextService == QueryStart \/ Next \/ QueryReturn \/ QueryExcept

SpecService == InitService /\ [][NextService]_vars

\* C25: AgentService.query does not raise to its caller: for every
\* agent_type and every failure inside the run it returns either the
\* complete result with success true or the failure envelope with success
\* false, no answer and the error.
C25_QueryNeverRaises ==
    /\ ~s_call.raised
    /\ s_call.op = "returned" =>
           \/ /\ s_call.result.success
              /\ pc = "done"
              /\ s_call.result.answer = response.answer
              /\ s_call.result.error = NONE
              /\ s_call.result.iterations = iteration
           \/ /\ ~s_call.result.success
              /\ pc = "raised"
              /\ s_call.result.answer = NONE
              /\ s_call.result.error = exception
              /\ s_call.result.error /= NONE

C25_Witness ==
    /\ s_call.op = "returned"
    /\ s_call.agent_type = "react"
    /\ ~s_call.result.success
    /\ s_call.result.error = "llm error"
    /\ iteration = 2

-----------------------------------------------------------------------------
(* Further properties of SpecReflect and SpecPlan. *)

\* C40: SimpleReflector never scores the accuracy and logic criteria, so its
\* overall_score, the mean of the six criterion scores, is at most 0.6 for
\* every input, and under the default threshold 0.7 its should_refine is
\* true for every query and answer.
C40_SimpleScoreCapped ==
    r_call.op = "simple_reflect" =>
        /\ ~r_call.out.raised
        /\ DictGet(r_call.out.result.criterion_scores, "accuracy", NONE) = Pct(0)
        /\ DictGet(r_call.out.result.criterion_scores, "logic", NONE) = Pct(0)
        /\ Len(r_call.out.result.criterion_scores) = 6
        /\ RatLe(r_call.out.result.overall_score, Pct(60))
        /\ (min_acceptable_score = Pct(70) => r_call.out.result.should_refine)

\* C39: for every list of sub-queries, with or without cycles, duplicate
\* ids, repeated or undeclared dependency ids, the execution order has the
\* length of the list and holds only declared ids, each as many times as it
\* is declared.
C39_OrderIsRearrangement ==
    HasOrder =>
        /\ Len(ExecutionOrder) = Len(OrderedSubQueries)
        /\ \A p \in 1..Len(ExecutionOrder) : ExecutionOrder[p] \in Declared(OrderedSubQueries)
        /\ \A a \in Declared(OrderedSubQueries) :
               Cardinality({p \in 1..Len(ExecutionOrder) : ExecutionOrder[p] = a}) =
               Cardinality({i \in 1..Len(OrderedSubQueries) : OrderedSubQueries[i].id = a})

\* Duplicate ids, a repeated dependency and an undeclared one in one list.
C39_Witness ==
    /\ p_call.op = "_determine_execution_order"
    /\ Len(p_call.sub_queries) = 3
    /\ p_call.sub_queries[1].id = p_call.sub_queries[2].id
    /\ p_call.sub_queries[3].id /= p_call.sub_queries[1].id
    /\ \E x \in 1..MaxSubQueries : p_call.sub_queries[3].dependencies = <<x, x>>
    /\ \E i \in 1..2 : \E j \in 1..Len(p_call.sub_queries[i].dependencies) :
           p_call.sub_queries[i].dependencies[j] \notin Declared(p_call.sub_queries)
    /\ Len(p_call.out) = 3

-----------------------------------------------------------------------------
(* A further property of SpecRefine. *)

\* C33: in reflect_and_refine a failed rewrite call keeps the current
\* candidate answer, still increments the refinement counter, and the loop
\* goes on; so the pair is returned after at most max_refinements rewrite
\* attempts, also when every rewrite call fails.
C33_RewriteFailureKeepsAnswer ==
    rr.caller = "direct" =>
        LET rewrites == CallCount("generate(refinement_prompt)")
            failed   == CallCount(RefineFailureLogged)
        IN /\ rr.refinement_count = rewrites
           /\ failed <= rewrites
           /\ rewrites <= rr.max_refinements
           /\ (failed = rewrites => rr.current_answer = rr.answer)
           /\ (failed < rewrites => rr.current_answer \in RewriteTexts)
           /\ (pc = "raised" => calls[Len(calls)] = "generate(reflection_prompt)")
           /\ ((calls /= << >> /\ calls[Len(calls)] = RefineFailureLogged) =>
                   pc = RefineLoopHead(rr.refinement_count, rr.max_refinements))

C33_Witness ==
    /\ pc = "rr_returned"
    /\ rr.max_refinements = 2
    /\ CallCount(RefineFailureLogged) = 2
    /\ rr.answer = TextOf("Paris")
    /\ rr.current_answer = rr.answer
    /\ rr.reflection.should_refine

-----------------------------------------------------------------------------
(* Further properties of Spec, and termination of the run. *)

\* The pass that just ended dispatched a tool and recorded it.
DispatchJustRecorded ==
    /\ pc \in {"think", "finish"}
    /\ iteration >= 1
    /\ Len(response.actions) = iteration

\* C32: a failed tool result (unknown tool, tool raised, missing parameter)
\* does not end the loop: the action is recorded with the failed result, the
\* error observation is appended to the transcript, and while the budget is
\* not exhausted the next step is another Think call.
C32_FailedToolContinues ==
    (DispatchJustRecorded /\ ~response.actions[iteration].tool_output.success) =>
        LET failed == response.actions[iteration].tool_output
            n == Len(prompt)
            steps == response.intermediate_steps
        IN /\ exception = NONE
           /\ failed.error /= NONE
           /\ n >= 3
           /\ SubSeq(prompt, n - 2, n) =
                  <<Tok("text", "Observation:", ""), Tok("obs", "error", failed.error),
                    Tok("thought_mark", "", "")>>
           /\ steps[Len(steps)] = [kind |-> "Observation", n |-> iteration,
                                   text |-> <<Tok("obs", "error", failed.error)>>]
           /\ (iteration < max_iterations => pc = "think")
           /\ (iteration >= max_iterations => pc = "finish")

\* An unknown tool failed in pass 1 and the model is asked again.
C32_Witness ==
    /\ pc = "think"
    /\ iteration = 1
    /\ Len(response.actions) = 1
    /\ response.actions[1].tool_name = UnknownTool
    /\ ~response.actions[1].tool_output.success

\* C34: in every run that returns the memory is written exactly once, after
\* the loop has ended and with the final answer, confidence and metadata of
\* the response; it is never written while the loop is iterating.
C34_MemoryWrittenOnceAtEnd ==
    /\ CallCount("memory.add") <= 1
    /\ (pc /= "done" => CallCount("memory.add") = 0 /\ memory = << >>)
    /\ (pc = "done" =>
            /\ CallCount("memory.add") = 1
            /\ calls[Len(calls)] = "memory.add"
            /\ memory = <<[role |-> "user", content |-> TextOf(Query)],
                          [role |-> "assistant", content |-> response.answer]>>
            /\ DictHas(response.metadata, "iterations"))

C34_Witness ==
    /\ pc = "done"
    /\ Len(response.actions) = 1
    /\ Answered
    /\ Len(memory) = 2
    /\ memory[2].content = TextOf("Paris")

\* C38: in the response of every run metadata.tools_used is the list of the
\* tool names of the recorded actions in order, and the number of recorded
\* actions is iterations - 1 when the run ended through an answer and
\* iterations, which is then max_iterations, when the budget was exhausted.
C38_ToolsUsedAndIterations ==
    pc = "done" =>
        LET used == DictGet(response.metadata, "tools_used", NONE)
            iterations == DictGet(response.metadata, "iterations", NONE)
        IN /\ iterations = iteration
           /\ Len(used) = Len(response.actions)
           /\ \A i \in 1..Len(used) : used[i] = response.actions[i].tool_name
           /\ IF action.none \/ action.tool = "Answer"
              THEN Len(response.actions) = iterations - 1
              ELSE /\ Len(response.actions) = iterations
                   /\ iterations = max_iterations

\* The budget of two passes is exhausted by the same tool dispatched twice.
C38_Witness ==
    /\ pc = "done"
    /\ max_iterations = 2
    /\ Len(response.actions) = 2
    /\ response.actions[1].tool_name = response.actions[2].tool_name
    /\ DictGet(response.metadata, "tools_used", NONE) =
           <<response.actions[1].tool_name, response.actions[2].tool_name>>

\* The run with every model call and every tool call returning: a step that
\* can be taken is taken.
SpecTerminating == Init /\ [][Next]_vars /\ WF_vars(Next)

\* The bounds on the calls of one run.
CallsBounded ==
    /\ CallCount("generate(react_prompt)") <= max_iterations
    /\ CallCount("use_tool") <= max_iterations
    /\ CallCount("generate(refinement_prompt)") <= 2
    /\ CallCount("generate(reflection_prompt)") <= 4

\* C37: provided every model call and every tool call returns, every run
\* ends, after at most max_iterations Think calls, at most max_iterations
\* tool dispatches, at most 2 rewrite calls and at most 4 reflection calls.
C37_RunTerminates == []CallsBounded /\ <>(pc \in {"done", "raised"})

\* A run that used all of it: both passes, both rewrites, four reflections.
C37_Witness ==
    /\ pc = "done"
    /\ CallCount("generate(react_prompt)") = max_iterations
    /\ max_iterations = 2
    /\ CallCount("use_tool") = 1
    /\ CallCount("generate(refinement_prompt)") = 2
    /\ CallCount("generate(reflection_prompt)") = 4

-----------------------------------------------------------------------------
(* Specification SpecManager: a ConversationManager without storage is       *)
(* constructed with some max_messages_per_conversation; conversations are    *)
(* created and imported and messages are added to them.                      *)

MaxManagerCalls == 3
MaxPerConversation == 2

\* The texts given to import_conversation, as json.loads reads them.
ImportData ==
    {[valid |-> FALSE, messages |-> << >>, title |-> NONE],
     [valid |-> TRUE, messages |-> << >>, title |-> "Imported Conversation"],
     [valid |-> TRUE, messages |-> <<Message("user", "m")>>, title |-> "t"],
     [valid |-> TRUE, messages |-> <<Message("user", "m"), Message("assistant", "m"),
                                     Message("user", "m")>>, title |-> "t"]}

\* str(uuid.uuid4()): an id no conversation has yet.
NewConversationId == Len(manager.conversations) + 1

InitManager ==
    /\ manager \in {NewConversationManager(m) : m \in 1..MaxPerConversation}
    /\ c_call = NoManagerCall
    /\ ToolIdle
    /\ ReflIdle
    /\ PlanIdle
    /\ RunIdle
    /\ RegIdle
    /\ MemIdle
    /\ SvcIdle
    /\ CoIdle

\* manager.create_conversation(title)
CreateConversation ==
    /\ c_call.n < MaxManagerCalls
    /\ \E title \in {"", "t"} :
           manager' = create_conversation(manager, NewConversationId, title)
    /\ c_call' = [NoManagerCall EXCEPT !.op = "create_conversation",
                      !.returned = NewConversationId, !.n = c_call.n + 1]
    /\ UNCHANGED <<toolVars, reflVars, planVars, runVars, regVars, memVars, svcVars, coVars>>

\* manager.add_message(conversation_id, message): an id of the manager or
\* the id 0, which no conversation has.
AddMessage ==
    /\ c_call.n < MaxManagerCalls
    /\ \E conversation_id \in DictKeys(manager.conversations) \cup {0},
          role \in {"user", "assistant"} :
           manager' = add_message(manager, conversation_id, Message(role, "m"))
    /\ c_call' = [NoManagerCall EXCEPT !.op = "add_message", !.n = c_call.n + 1]
    /\ UNCHANGED <<toolVars, reflVars, planVars, runVars, regVars, memVars, svcVars, coVars>>

\* manager.import_conversation(data, format)
ImportConversation ==
    /\ c_call.n < MaxManagerCalls
    /\ \E data \in ImportData, format \in {"json", "txt"} :
           LET out == import_conversation(manager, NewConversationId, data, format)
           IN /\ manager' = out.self
              /\ c_call' = [NoManagerCall EXCEPT !.op = "import_conversation",
                                !.returned = IF out.raised THEN NONE ELSE NewConversationId,
                                !.raised = out.raised, !.exc = out.exc,
                                !.n = c_call.n + 1]
    /\ UNCHANGED <<toolVars, reflVars, planVars, runVars, regVars, memVars, svcVars, coVars>>

NextManager == CreateConversation \/ AddMessage \/ ImportConversation

SpecManager == InitManager /\ [][NextManager]_vars

\* C31: after any sequence of create_conversation, add_message and
\* import_conversation calls no conversation of the manager holds more than
\* max_messages_per_conversation messages.
C31_ConversationsBounded ==
    \A conversation_id \in DictKeys(manager.conversations) :
        Len(DictGet(manager.conversations, conversation_id, << >>))
            <= manager.max_messages_per_conversation

-----------------------------------------------------------------------------
(* Specification SpecConcurrent: two runs of ReActAgent.run on one agent,    *)
(* built without reflection, are started together on one event loop. They   *)
(* share the tools, max_iterations and one ConversationMemory; every other   *)
(* variable of run is a local of the coroutine. A step of the specification *)
(* is a step of one run, so the runs interleave at every await and more.     *)

RunIds == {1, 2}

\* What tells the runs apart: the query and the collection each is called
\* with, and the answer the model gives to it.
QueryOf(r) == IF r = 1 THEN "q1" ELSE "q2"
CollectionOf(r) == IF r = 1 THEN "docs1" ELSE "docs2"
AnswerOf(r) == IF r = 1 THEN "a1" ELSE "a2"

\* The model texts of run r: its prompt holds its query, so its texts speak
\* of that query.
CoThought(r) == <<Tok("thought_mark", "", ""), Tok("text", QueryOf(r), "")>>

CoTexts(r) ==
    { CoThought(r) \o ActionText("retrieve_documents", <<Tok("kv", "query", QueryOf(r))>>),
      ActionText(UnknownTool, << >>),
      CoThought(r) \o ActionText("Answer", <<Tok("kv", "answer", AnswerOf(r))>>) }

\* What the collaborators of the tools do for run r: r documents are found.
CoExtOutcomes(r) == [first : {"ok", "raise"}, second : {"ok"}, docs : {r}]

\* The max_messages of the shared memory.
SharedMaxMessages == {3, 4}

\* The locals of run(query, collection) when it reaches its loop.
CoFrame(r) ==
    [pc |-> "think", query |-> QueryOf(r), collection |-> CollectionOf(r), iteration |-> 0,
     prompt |-> _build_react_prompt(QueryOf(r)), llm_response |-> << >>,
     thought |-> << >>, action |-> NoAction, response |-> NewResponse,
     exception |-> NONE]

InitConcurrent ==
    /\ coros = [r \in RunIds |-> CoFrame(r)]
    /\ conversation_memory \in {NewConversationMemory(m) : m \in SharedMaxMessages}
    /\ m_call = NoMemoryCall
    /\ tools = DefaultTools
    /\ t_call = NoToolCall
    /\ ReflIdle
    /\ PlanIdle
    /\ RegIdle
    /\ SvcIdle
    /\ MgrIdle
    /\ pc = "idle"
    /\ max_iterations \in 1..MaxIterations
    /\ enable_reflection = FALSE
    /\ collection = NONE
    /\ iteration = 0
    /\ prompt = << >>
    /\ llm_response = << >>
    /\ thought = << >>
    /\ action = [tool |-> NONE]
    /\ final_answer = << >>
    /\ response = [answer |-> << >>]
    /\ reflection_result = [op |-> "none"]
    /\ rr = [op |-> "none"]
    /\ calls = << >>
    /\ memory = << >>
    /\ exception = NONE

\* tool_args after `tool_args["collection"] = collection`, for the
\* collection of the run.
CoWithCollection(action_, collection_) ==
    IF collection_ /= NONE /\ ~DictHas(action_.args.map, "collection")
       /\ action_.tool = "retrieve_documents"
    THEN [action_ EXCEPT !.args.map = DictSet(@, "collection", collection_)]
    ELSE action_

\* One pass of run r from `iteration += 1` to the tool dispatch.
CoThink(r) ==
    /\ coros[r].pc = "think"
    /\ \E llm \in LLMOutcomes(CoTexts(r)) :
           LET f == coros[r]
               parsed == _parse_react_response(llm.text)
               steps == Append(f.response.intermediate_steps,
                               [kind |-> "Thought", n |-> f.iteration + 1,
                                text |-> parsed.thought])
               thinking == [f EXCEPT !.iteration = @ + 1]
           IN coros' = [coros EXCEPT ![r] =
                  IF llm.fails
                  THEN [thinking EXCEPT !.pc = "raised", !.exception = "llm error"]
                  ELSE IF parsed.action.none
                  THEN [thinking EXCEPT !.pc = "raised", !.exception = "AttributeError",
                            !.llm_response = llm.text, !.thought = parsed.thought,
                            !.action = parsed.action, !.response.intermediate_steps = steps]
                  ELSE IF parsed.action.tool = "Answer"
                  THEN [thinking EXCEPT !.pc = "finish",
                            !.llm_response = llm.text, !.thought = parsed.thought,
                            !.action = parsed.action,
                            !.response.intermediate_steps = steps,
                            !.response.answer =
                                IF DictHas(parsed.action.args.map, "answer")
                                THEN TextOf(DictGet(parsed.action.args.map, "answer", ""))
                                ELSE llm.text,
                            !.response.confidence = Pct(80)]
                  ELSE [thinking EXCEPT !.pc = "act",
                            !.llm_response = llm.text, !.thought = parsed.thought,
                            !.action = CoWithCollection(parsed.action, f.collection),
                            !.response.intermediate_steps = steps]]
    /\ UNCHANGED <<toolVars, reflVars, planVars, runVars, regVars, memVars, svcVars, mgrVars>>

\* Mutant: the transcript is kept on the agent, one for all its runs.
CoAct_shared_prompt(r) ==
    /\ coros[r].pc = "act"
    /\ \E ext \in CoExtOutcomes(r) :
           LET f == coros[r]
               out == use_tool(tools, f.action.tool, f.action.args.map, ext)
               observation == to_string(out.result)
               updated == _update_react_prompt(f.prompt, f.thought, f.action, observation)
           IN coros' = [q \in RunIds |->
                  IF q = r
                  THEN [f EXCEPT
                           !.response.actions =
                               Append(@, AgentAction(f.action.tool, f.action.args.map,
                                                     out.result, f.thought, f.iteration)),
                           !.response.intermediate_steps =
                               Append(@, [kind |-> "Observation", n |-> f.iteration,
                                          text |-> observation]),
                           !.prompt = updated,
                           !.pc = AfterTool(out.result, f.iteration)]
                  ELSE [coros[q] EXCEPT !.prompt = updated]]
    /\ UNCHANGED <<toolVars, reflVars, planVars, runVars, regVars, memVars, svcVars, mgrVars>>

\* The rest of the pass of run r: the tool dispatch, the recorded action,
\* the observation appended to its prompt.
CoAct(r) ==
    /\ coros[r].pc = "act"
    /\ \E ext \in CoExtOutcomes(r) :
           LET f == coros[r]
               out == use_tool(tools, f.action.tool, f.action.args.map, ext)
               observation == to_string(out.result)
           IN coros' = [coros EXCEPT ![r] =
                  [f EXCEPT
                      !.response.actions =
                          Append(@, AgentAction(f.action.tool, f.action.args.map,
                                                out.result, f.thought, f.iteration)),
                      !.response.intermediate_steps =
                          Append(@, [kind |-> "Observation", n |-> f.iteration,
                                     text |-> observation]),
                      !.prompt = _update_react_prompt(f.prompt, f.thought, f.action,
                                                      observation),
                      !.pc = AfterTool(out.result, f.iteration)]]
    /\ UNCHANGED <<toolVars, reflVars, planVars, runVars, regVars, memVars, svcVars, mgrVars>>

\* After the loop of run r: the metadata, memory.add on the shared memory,
\* the return. add is a plain method: no other run steps inside it.
CoFinish(r) ==
    /\ coros[r].pc = "finish"
    /\ LET f == coros[r]
           metadata == << <<"iterations", f.iteration>>,
                          <<"tools_used", ToolsUsed(f.response.actions)>>,
                          <<"collection", f.collection>>,
                          <<"query_length", 2>> >>
       IN /\ coros' = [coros EXCEPT ![r] = [f EXCEPT !.response.metadata = metadata,
                                                      !.pc = "done"]]
          /\ conversation_memory' = add(conversation_memory, TextOf(f.query), f.response.answer)
          /\ m_call' = [op |-> "add", adds |-> m_call.adds + 1]
    /\ UNCHANGED <<toolVars, reflVars, planVars, runVars, regVars, svcVars, mgrVars>>

NextConcurrent == \E r \in RunIds : CoThink(r) \/ CoAct(r) \/ CoFinish(r)

SpecConcurrent == InitConcurrent /\ [][NextConcurrent]_vars

\* The transcript of a run on query from its recorded actions.
RECURSIVE TranscriptOf(_, _)
TranscriptOf(query, actions) ==
    IF actions = << >> THEN _build_react_prompt(query)
    ELSE LET n == Len(actions)
             a == actions[n]
         IN TranscriptOf(query, SubSeq(actions, 1, n - 1))
                \o a.thought
                \o <<Tok("action_mark", "", ""), Tok("word", a.tool_name, ""),
                     Tok("lparen", "", "")>>
                \o ArgsEcho(a.tool_input)
                \o <<Tok("rparen", "", ""), Tok("text", "Observation:", "")>>
                \o to_string(a.tool_output)
                \o <<Tok("thought_mark", "", "")>>

\* The thoughts parsed from the model texts of run r.
OwnThoughts(r) == {_parse_react_response(text).thought : text \in CoTexts(r)}

\* Everything in the locals of run r comes from run r: its query, its
\* collection, its model texts and the results of its tool calls.
OwnOnly(r) ==
    LET f == coros[r]
        actions == f.response.actions
        steps == f.response.intermediate_steps
    IN /\ f.query = QueryOf(r)
       /\ f.prompt = TranscriptOf(QueryOf(r), actions)
       /\ Len(actions) <= f.iteration
       /\ f.iteration <= Len(actions) + 1
       /\ f.iteration <= max_iterations
       /\ \A i \in 1..Len(actions) :
              /\ actions[i].step = i
              /\ actions[i].thought \in OwnThoughts(r)
              /\ \E text \in CoTexts(r), ext \in CoExtOutcomes(r) :
                     LET a == CoWithCollection(_parse_react_response(text).action,
                                               CollectionOf(r))
                     IN /\ actions[i].tool_name = a.tool
                        /\ actions[i].tool_input = a.args.map
                        /\ actions[i].tool_output =
                               use_tool(tools, a.tool, a.args.map, ext).result
       /\ \A i \in 1..Len(steps) :
              /\ steps[i].n <= f.iteration
              /\ steps[i].kind = "Thought" =>
                     steps[i].text \in OwnThoughts(r)
              /\ steps[i].kind = "Observation" =>
                     steps[i].text = to_string(actions[steps[i].n].tool_output)
       /\ f.response.answer \in {<< >>, TextOf(AnswerOf(r))}
       /\ f.pc = "done" =>
              /\ DictGet(f.response.metadata, "iterations", NONE) = f.iteration
              /\ DictGet(f.response.metadata, "tools_used", NONE) = ToolsUsed(actions)
              /\ DictGet(f.response.metadata, "collection", NONE) = CollectionOf(r)

\* C35: two runs of ReActAgent.run on one agent, interleaved in any order,
\* are independent: the transcript, the iteration counter and the
\* AgentResponse of each run hold only that run's own model outputs and tool
\* results.
C35_RunsIndependent == coros /= << >> => \A r \in RunIds : OwnOnly(r)

\* Both runs are in flight at once: each has recorded the successful tool
\* call of its first pass, with its own documents, and waits at the tool
\* dispatch of its second pass.
C35_Witness ==
    /\ coros /= << >>
    /\ \A r \in RunIds :
           /\ coros[r].pc = "act"
           /\ coros[r].iteration = 2
           /\ Len(coros[r].response.actions) = 1
           /\ coros[r].response.actions[1].tool_output.success
    /\ coros[1].response.actions[1].tool_output /= coros[2].response.actions[1].tool_output

\* The pair of run r is in the global log, the user message at once followed
\* by the assistant message.
PairInLog(r) ==
    LET log == conversation_memory.global_messages
    IN \E i \in 1..(Len(log) - 1) :
           /\ log[i] = Message("user", TextOf(QueryOf(r)))
           /\ log[i + 1] = Message("assistant", coros[r].response.answer)

\* C36: when several runs share one ConversationMemory and are interleaved,
\* their appends are serialized: the user message of each run is at once
\* followed by the assistant message of that run in the global log, and no
\* pair is split or lost through the append of another run.
C36_PairsKeptTogether ==
    coros /= << >> => \A r \in RunIds : coros[r].pc = "done" => PairInLog(r)

=============================================================================
